---- MODULE Spec2Model ----
(***************************************************************************)
(* State-machine model of the voxscribe chunked transcription pipeline     *)
(* (src/src/transcribe.ts): transcribeAudio, its transcription tasks and   *)
(* the bounded-concurrency scheduler runWithConcurrency (Spec), and the    *)
(* segmenter chunkAudioFile (SpecChunk); and of the version of the         *)
(* pipeline documented in src/README.md: runFfmpeg with                    *)
(* segmentAudioWithRetry (SpecSeg) and the worker pool raced against the   *)
(* abort promise (SpecPool); and of the transcription history of           *)
(* src/src/storage.ts (SpecStore).                                         *)
(*                                                                         *)
(* One step of the model is one turn of the JavaScript event loop: the     *)
(* completion of one awaited operation together with all the synchronous   *)
(* code (and promise reactions) that runs before the next await.           *)
(***************************************************************************)
EXTENDS Integers, Sequences, FiniteSets, TLC

----------------------------------------------------------------------------
(* Program constants and model bounds *)

MAX_CONCURRENT_TRANSCRIPTIONS == 3

TARGET_CHUNK_DURATION_SECONDS == 300

MIN_CHUNK_DURATION_SECONDS == 60

MAX_CHUNK_SIZE_BYTES == 150 * 1024 * 1024

\* File sizes are modelled in whole megabytes so that the products of the
\* planning arithmetic stay within the range of the integers.
MB == 1024 * 1024

\* MAX_CHUNK_SIZE_BYTES in megabytes.
MaxChunkMB == MAX_CHUNK_SIZE_BYTES \div MB

\* Largest number of chunk files chunkAudioFile returns in the model.
MaxChunks == 4

----------------------------------------------------------------------------
(* Values *)

Letters == <<"a", "b", "c", "d", "e", "f", "g", "h">>

\* Transcript text is a sequence of characters; " " is the whitespace character.
\* The recognition service is a deterministic stub: the transcript it has for
\* chunk i is fixed, some with leading or trailing whitespace.
StubTranscript(i) ==
    IF i % 3 = 0 THEN <<" ", Letters[i + 1]>>
    ELSE IF i % 3 = 1 THEN <<Letters[i + 1], " ">>
    ELSE <<Letters[i + 1]>>

\* Size in bytes of chunk file i (the length of the buffer readFile returns).
ChunkBytes(i) == i + 1

\* What one call of deepgram.listen.prerecorded.transcribeFile can do:
\*   ok        {result with a transcript, error: null}
\*   empty     {result whose transcript is "", error: null}
\*   malformed {result without any transcript field, error: null}
\*   error     {result: null, error}
\*   throw     the call rejects (transport failure)
ResponseKinds == {"ok", "empty", "malformed", "error", "throw"}

Null == [isNull |-> TRUE, chunk |-> -1, hasTranscript |-> FALSE, transcript |-> <<>>]

\* The `result` object of a response of the given kind for chunk i.
ResultOf(i, kind) ==
    CASE kind = "ok" ->
           [isNull |-> FALSE, chunk |-> i, hasTranscript |-> TRUE,
            transcript |-> StubTranscript(i)]
      [] kind = "empty" ->
           [isNull |-> FALSE, chunk |-> i, hasTranscript |-> TRUE, transcript |-> <<>>]
      [] kind = "malformed" ->
           [isNull |-> FALSE, chunk |-> i, hasTranscript |-> FALSE, transcript |-> <<>>]
      [] OTHER -> Null

\* An array slot that has never been assigned (new Array(n)).
Hole == [index |-> -1, transcription |-> <<>>, rawData |-> Null]

----------------------------------------------------------------------------
VARIABLES
    pc,                \* where transcribeAudio is suspended, or how it settled
    aborted,           \* signal.aborted
    abortedAt,         \* pc at the moment the signal fired ("never" before)
    showNotifications, \* preferences.showNotifications !== false
    toast,             \* TRUE once the toast object exists
    tempDir,           \* "none", "exists" or "removed"
    rmCalls,           \* number of fs.promises.rm(tempDir) calls issued
    outcome,           \* completion of the call: "none", "result", "AbortError", "Error",
                       \* "NotFoundError" (the Error with getBinaryPath's message)
    progress,          \* arguments of the latest progressCallback invocation
    validated,         \* the source file as validateAudioFile found it, or NotValidated
    probing,           \* getBinaryPath: index in Locations of the pending probe, 0 if none
    nChunks,           \* chunkFiles.length (0 before chunking)
    job,               \* per chunk index: position of its transcription task
    resp,              \* per chunk index: what the service answered ("none" before)
    results,           \* the results array of runWithConcurrency
    executing,         \* the executing set of runWithConcurrency (chunk indices)
    nextIndex,         \* number of loop iterations of runWithConcurrency begun
    rwc,               \* where runWithConcurrency is: "none","race","all","returned","rejected"
    processedCount,
    totalSize,
    transcription,     \* combinedTranscription
    rawResults,        \* rawResults
    outOfOrder         \* history: some job settled while a lower-index job was in flight

\* State of one call of chunkAudioFile (src/src/transcribe.ts).  Sizes are in
\* MB (1024 * 1024 bytes), durations in seconds.
VARIABLES
    cpc,               \* where chunkAudioFile is suspended, or how it settled
    fileSize,          \* size of the source file (what stat reports)
    trueDuration,      \* length of the audio in the source file
    probe,             \* getAudioDuration: ffprobe invocations issued, outcome of the last
    duration,          \* what getAudioDuration returned (0 = unknown)
    chunkDuration,     \* the planned segment duration
    dir,               \* chunk files in tempDir: count and largest size per format
    ret,               \* completion of chunkAudioFile
    ffmpegLog,         \* history: the ffmpeg invocations started, in order
    abortedIn          \* history: cpc at the moment the signal fired ("never" before)

chunkVars == <<cpc, fileSize, trueDuration, probe, duration, chunkDuration, dir, ret,
               ffmpegLog, abortedIn>>

\* State of one call of segmentAudioWithRetry, the retrying segmenter of the
\* documented version of the pipeline (src/README.md).
VARIABLES
    spc,               \* where segmentAudioWithRetry is suspended, or how it settled
    strategy,          \* "copy" (Strategy 1, wav) or "mp3" (Strategy 2)
    attempt,           \* the attempt counter of the strategy's for loop
    ffAttempt,         \* the attempt counter inside runFfmpeg
    segDuration,       \* chunkDuration
    initialDuration,
    segFiles,          \* per strategy: its chunk files in tempDir, count and largest size
    segError,          \* the error segmentAudioWithRetry rejected with ("none" before)
    segLog,            \* history: strategy and duration of every execPromise issued
    abortRaised        \* history: Len(segLog) when an invocation first raised AbortError, else -1

segVars == <<spc, strategy, attempt, ffAttempt, segDuration, initialDuration,
             segFiles, segError, segLog, abortRaised>>

\* State of the worker pool of the documented version (src/README.md):
\* runWithConcurrency(tasks, limit) raced against the abort promise.
VARIABLES
    ppc,               \* "idle", "racing", then how the race settled: "resolved", "rejected"
    nTasks,            \* transcriptionTasks.length
    poolIndex,         \* the shared counter `index` of runWithConcurrency
    pjob,              \* per task: "unstarted", "reading", "calling", "done"
    presults,          \* per task: the kind of result stored in results[current]
    pProcessed,        \* processedCount
    lateStarts         \* history: tasks started while the signal was already set

poolVars == <<ppc, nTasks, poolIndex, pjob, presults, pProcessed, lateStarts>>

\* State of the transcription history (src/src/storage.ts) and of the calls of
\* saveTranscription and removeTranscriptionItem that work on it.
VARIABLES
    historyLimit,      \* the historyLimit preference: a string, or "undefined"
    stored,            \* LocalStorage under HISTORY_KEY: present or not, and the items
    saved,             \* number of saveTranscription calls made; item k is the k-th saved
    call,              \* per caller: the storage call it has in flight
    overlaps,          \* number of calls started while another call was in flight
    removedItems       \* items for which removeTranscriptionItem has been called

storeVars == <<historyLimit, stored, saved, call, overlaps, removedItems>>

\* The variables of the other components, which the steps of transcribeAudio
\* leave alone.
auxVars == <<chunkVars, segVars, poolVars, storeVars>>

pipeVars == <<pc, showNotifications, toast, tempDir, rmCalls, outcome, progress,
              validated, probing>>
schedVars == <<nChunks, job, resp, results, executing, nextIndex, rwc,
               processedCount, totalSize, transcription, rawResults, outOfOrder>>
vars == <<pc, aborted, abortedAt, showNotifications, toast, tempDir, rmCalls,
          outcome, progress, validated, probing, nChunks, job, resp, results, executing, nextIndex, rwc,
          processedCount, totalSize, transcription, rawResults, outOfOrder,
          auxVars>>

Indices == 0 .. (MaxChunks - 1)

\* The source file as validateAudioFile examines it: existsSync, stats.size
\* (0 or positive), whether detectAudioFormat recognises the format, and, when
\* it does not, whether the fallback getDetailedAudioMetadata reads metadata
\* with a positive duration (for a recognised format the metadata is read but
\* changes nothing, and is not recorded).
AudioFiles ==
    {f \in [exists : BOOLEAN, size : {0, 1}, detected : BOOLEAN, metadata : BOOLEAN] :
       f.detected => ~f.metadata}

\* validateAudioFile has not run (validation disabled, or not finished).
NotValidated == [exists |-> FALSE, size |-> -1, detected |-> FALSE, metadata |-> FALSE]

\* validateAudioFile(filePath).isValid
validateAudioFileNoSizeCheck(f) ==
    IF ~f.exists THEN FALSE
    ELSE IF ~f.detected THEN f.metadata
    ELSE TRUE

validateAudioFile(f) ==
    IF ~f.exists THEN FALSE
    ELSE IF f.size = 0 THEN FALSE
    ELSE IF ~f.detected THEN f.metadata
    ELSE TRUE

\* Where getBinaryPath runs `<binary> -version`: the bare name (resolved through
\* the PATH), then the three common locations.
Locations == <<"PATH", "/opt/homebrew/bin", "/usr/local/bin", "/usr/bin">>

\* getBinaryPath after the probe of location k has failed: the next location to
\* probe, or 0 when all have failed and the "not found" Error is thrown.
ProbeAfterPathOnly(k) == 0

ProbeAfter(k) == IF k < Len(Locations) THEN k + 1 ELSE 0

\* progressCallback has not been invoked.
NoProgress == [stage |-> "none", current |-> 0, total |-> 0, message |-> "none"]

\* progressCallback?.(stage, n, 4, message): the four stage announcements of
\* transcribeAudio.
StageProgress(stage) ==
    CASE stage = "validation" ->
           [stage |-> stage, current |-> 1, total |-> 4, message |-> "Validating audio file..."]
      [] stage = "preparation" ->
           [stage |-> stage, current |-> 2, total |-> 4, message |-> "Preparing audio..."]
      [] stage = "chunking" ->
           [stage |-> stage, current |-> 3, total |-> 4, message |-> "Chunking audio file..."]
      [] OTHER ->
           [stage |-> stage, current |-> 4, total |-> 4, message |-> "Transcribing n chunk(s)..."]

\* No chunk file is in tempDir (right after mkdtemp).
EmptyDir == [wav |-> 0, wavMax |-> 0, mp3 |-> 0, mp3Max |-> 0]

\* chunkAudioFile has not completed.
NoReturn == [chunks |-> 0, format |-> "none", maxSize |-> 0, error |-> "none"]

\* getAudioDuration has not been called.
NoProbe == [calls |-> 0, outcome |-> "none"]

\* chunkAudioFile has not been called.
ChunkerIdle ==
    /\ cpc = "idle"
    /\ fileSize = 0
    /\ trueDuration = 0
    /\ probe = NoProbe
    /\ duration = 0
    /\ chunkDuration = 0
    /\ dir = EmptyDir
    /\ ret = NoReturn
    /\ ffmpegLog = <<>>
    /\ abortedIn = "never"

\* segmentAudioWithRetry has not been called.
SegmenterIdle ==
    /\ spc = "idle"
    /\ strategy = "copy"
    /\ attempt = 0
    /\ ffAttempt = 0
    /\ segDuration = 0
    /\ initialDuration = 0
    /\ segFiles = [f \in {"copy", "mp3"} |-> [n |-> 0, max |-> 0]]
    /\ segError = "none"
    /\ segLog = <<>>
    /\ abortRaised = -1

\* The callers that can have a storage call in flight at the same time.
Callers == {1, 2}

\* No storage call in flight for a caller.
NoCall == [op |-> "none", item |-> 0, phase |-> "idle", history |-> <<>>]

\* Nothing was ever stored under HISTORY_KEY.
NothingStored == [present |-> FALSE, items |-> <<>>]

\* The history has never been used.
StoreIdle ==
    /\ historyLimit = "undefined"
    /\ stored = NothingStored
    /\ saved = 0
    /\ call = [c \in Callers |-> NoCall]
    /\ overlaps = 0
    /\ removedItems = {}

\* The documented pipeline has not reached its transcription stage.
PoolIdle ==
    /\ ppc = "idle"
    /\ nTasks = 0
    /\ poolIndex = 0
    /\ pjob = [i \in Indices |-> "unstarted"]
    /\ presults = [i \in Indices |-> "none"]
    /\ pProcessed = 0
    /\ lateStarts = {}

\* transcribeAudio has not been called.
PipelineIdle ==
    /\ pc = "idle"
    /\ aborted = FALSE
    /\ abortedAt = "never"
    /\ showNotifications = FALSE
    /\ toast = FALSE
    /\ tempDir = "none"
    /\ rmCalls = 0
    /\ outcome = "none"
    /\ progress = NoProgress
    /\ validated = NotValidated
    /\ probing = 0
    /\ nChunks = 0
    /\ job = [i \in Indices |-> "unstarted"]
    /\ resp = [i \in Indices |-> "none"]
    /\ results = <<>>
    /\ executing = {}
    /\ nextIndex = 0
    /\ rwc = "none"
    /\ processedCount = 0
    /\ totalSize = 0
    /\ transcription = <<>>
    /\ rawResults = <<>>
    /\ outOfOrder = FALSE

Init ==
    /\ PipelineIdle
    /\ ChunkerIdle
    /\ SegmenterIdle
    /\ PoolIdle
    /\ StoreIdle

----------------------------------------------------------------------------
(* Pure functions *)

\* checkAborted(signal): TRUE iff it throws AbortError.
checkAborted(signal) == signal

\* Insert record r into the index-sorted sequence s, after every element that
\* does not compare greater (Array.prototype.sort is stable).
RECURSIVE InsertByIndex(_, _)
InsertByIndex(r, s) ==
    IF s = <<>> THEN <<r>>
    ELSE IF Head(s).index - r.index > 0 THEN <<r>> \o s
    ELSE <<Head(s)>> \o InsertByIndex(r, Tail(s))

\* Mutant of SortByIndex: the comparator reversed (b.index - a.index).
RECURSIVE InsertByIndexDesc(_, _)
InsertByIndexDesc(r, s) ==
    IF s = <<>> THEN <<r>>
    ELSE IF r.index - Head(s).index > 0 THEN <<r>> \o s
    ELSE <<Head(s)>> \o InsertByIndexDesc(r, Tail(s))
RECURSIVE SortByIndexDesc(_)
SortByIndexDesc(s) ==
    IF s = <<>> THEN <<>>
    ELSE InsertByIndexDesc(s[Len(s)], SortByIndexDesc(SubSeq(s, 1, Len(s) - 1)))

\* results.sort((a, b) => a.index - b.index)
RECURSIVE SortByIndex(_)
SortByIndex(s) ==
    IF s = <<>> THEN <<>>
    ELSE InsertByIndex(s[Len(s)], SortByIndex(SubSeq(s, 1, Len(s) - 1)))

\* .map((r) => r.transcription)
MapTranscription(s) == [k \in 1 .. Len(s) |-> s[k].transcription]

\* .filter((t) => t.length > 0)
NonEmpty(t) == Len(t) > 0
FilterNonEmpty(ts) == SelectSeq(ts, NonEmpty)

\* .join(" ")
RECURSIVE JoinSpace(_)
JoinSpace(ts) ==
    IF ts = <<>> THEN <<>>
    ELSE IF Len(ts) = 1 THEN ts[1]
    ELSE ts[1] \o <<" ">> \o JoinSpace(Tail(ts))

\* .trim()
RECURSIVE TrimStart(_)
TrimStart(t) == IF t # <<>> /\ Head(t) = " " THEN TrimStart(Tail(t)) ELSE t
RECURSIVE TrimEnd(_)
TrimEnd(t) ==
    IF t # <<>> /\ t[Len(t)] = " " THEN TrimEnd(SubSeq(t, 1, Len(t) - 1)) ELSE t
Trim(t) == TrimEnd(TrimStart(t))

\* A combination that joins the empty transcripts too.
CombineTranscriptionNoFilter(sorted) == Trim(JoinSpace(MapTranscription(sorted)))

\* combinedTranscription, from the sorted results.
CombineTranscription(sorted) ==
    Trim(JoinSpace(FilterNonEmpty(MapTranscription(sorted))))

\* Mutant of CollectRaw: every rawData is pushed, null ones included.
CollectRawUnfiltered(sorted) == [k \in 1 .. Len(sorted) |-> sorted[k].rawData]

\* for (const result of results) if (result.rawData) rawResults.push(result.rawData)
HasRawData(r) == ~r.rawData.isNull
CollectRaw(sorted) ==
    LET kept == SelectSeq(sorted, HasRawData)
    IN  [k \in 1 .. Len(kept) |-> kept[k].rawData]

\* Mutant of TaskResult: a failed call yields placeholder text instead of "".
TaskResultPlaceholder(i, kind) ==
    IF kind \in {"throw", "error"}
    THEN [index |-> i, transcription |-> <<"!">>, rawData |-> Null]
    ELSE LET result == ResultOf(i, kind)
         IN  [index |-> i,
              transcription |-> IF result.hasTranscript THEN result.transcript ELSE <<>>,
              rawData |-> result]

\* The value a transcription task returns for chunk i once transcribeFile has
\* settled with a response of the given kind.
TaskResult(i, kind) ==
    IF kind = "throw" THEN [index |-> i, transcription |-> <<>>, rawData |-> Null]
    ELSE IF kind = "error" THEN [index |-> i, transcription |-> <<>>, rawData |-> Null]
    ELSE LET result == ResultOf(i, kind)
             transcript == IF result.hasTranscript /\ result.transcript # <<>>
                           THEN result.transcript ELSE <<>>
         IN  [index |-> i, transcription |-> transcript, rawData |-> result]

\* results[index] = await task()
StoreResult(arr, index, r) == [arr EXCEPT ![index + 1] = r]

\* The synchronous start of a task: checkAborted(signal), then readFile is issued.
TaskStart(signal) == IF checkAborted(signal) THEN "failed" ELSE "reading"

\* Mutant of MustWait: the loop awaits a settlement after every start.
MustWaitAlways(exec, limit) == TRUE

\* Mutant of MustWait: the comparison is off by one.
MustWaitOffByOne(exec, limit) == Cardinality(exec) > limit

\* if (executing.size >= limit) await Promise.race(executing)
MustWait(exec, limit) == Cardinality(exec) >= limit

\* Mutant of RunLoop: the loop does not call checkAborted(signal).
RECURSIVE RunLoopNoCheck(_, _, _, _)
RunLoopNoCheck(s, n, limit, signal) ==
    IF s.next >= n
    THEN [s EXCEPT !.rwc = IF s.executing = {} THEN "returned" ELSE "all"]
    ELSE LET started == [s EXCEPT !.job[s.next] = "reading",
                                  !.executing = @ \cup {s.next},
                                  !.next = @ + 1]
         IN  IF MustWait(started.executing, limit)
             THEN [started EXCEPT !.rwc = "race"]
             ELSE RunLoopNoCheck(started, n, limit, signal)

\* Mutant of RunLoop: results is returned without await Promise.all(executing).
RECURSIVE RunLoopNoAll(_, _, _, _)
RunLoopNoAll(s, n, limit, signal) ==
    IF s.next >= n
    THEN [s EXCEPT !.rwc = "returned"]
    ELSE IF checkAborted(signal)
    THEN [s EXCEPT !.rwc = "rejected", !.err = "AbortError"]
    ELSE LET started == [s EXCEPT !.job[s.next] = TaskStart(signal),
                                  !.executing = @ \cup {s.next},
                                  !.next = @ + 1]
         IN  IF MustWait(started.executing, limit)
             THEN [started EXCEPT !.rwc = "race"]
             ELSE RunLoopNoAll(started, n, limit, signal)

\* The for loop of runWithConcurrency from the top of an iteration up to its next
\* await. s = [next, executing, job, rwc, err].
RECURSIVE RunLoop(_, _, _, _)
RunLoop(s, n, limit, signal) ==
    IF s.next >= n
    THEN \* await Promise.all(executing); return results
         [s EXCEPT !.rwc = IF s.executing = {} THEN "returned" ELSE "all"]
    ELSE IF checkAborted(signal)
    THEN [s EXCEPT !.rwc = "rejected", !.err = "AbortError"]
    ELSE LET st == TaskStart(signal)
             started == [s EXCEPT !.job[s.next] = st,
                                  !.executing = @ \cup {s.next},
                                  !.next = @ + 1]
         IN  IF st = "failed"
             THEN \* not reachable: the loop has just checked the same signal
                  [s EXCEPT !.job[s.next] = st, !.next = @ + 1,
                            !.rwc = "rejected", !.err = "AbortError"]
             ELSE IF MustWait(started.executing, limit)
             THEN [started EXCEPT !.rwc = "race"]
             ELSE RunLoop(started, n, limit, signal)

\* The scheduler's variables as the record RunLoop works on.
Sched == [next |-> nextIndex, executing |-> executing, job |-> job,
          rwc |-> rwc, err |-> "none"]

\* Promise p of chunk i has settled: its cleanup reaction deletes it from
\* executing, then whatever runWithConcurrency awaits reacts.
\*   awaiting Promise.race: a fulfilment resumes the loop, a rejection rejects;
\*   awaiting Promise.all:  returns when nothing is left, a rejection rejects;
\*   already settled:       nothing reacts.
AfterSettled(i, jobState, fulfilled) ==
    LET s == [Sched EXCEPT !.job[i] = jobState, !.executing = @ \ {i}]
    IN  IF rwc \notin {"race", "all"} THEN s
        ELSE IF ~fulfilled THEN [s EXCEPT !.rwc = "rejected", !.err = "Error"]
        ELSE IF rwc = "race"
        THEN RunLoop(s, nChunks, MAX_CONCURRENT_TRANSCRIPTIONS, aborted)
        ELSE [s EXCEPT !.rwc = IF s.executing = {} THEN "returned" ELSE "all"]

----------------------------------------------------------------------------
(* transcribeAudio *)

\* transcribeAudio settles by rejecting before the try block is entered.
Reject(e) ==
    /\ pc' = "rejected"
    /\ outcome' = e

\* The try block completes with o (a return value or a thrown error) and the
\* finally block issues fs.promises.rm(tempDir, {recursive, force}).
EnterFinally(o) ==
    /\ pc' = "cleanup"
    /\ outcome' = o
    /\ rmCalls' = rmCalls + 1

\* The signal fires (abortController.abort()) while the request is pending.
Abort ==
    /\ ~aborted
    /\ pc \notin {"resolved", "rejected"}
    /\ aborted' = TRUE
    /\ abortedAt' = pc
    /\ UNCHANGED <<auxVars, pipeVars, schedVars>>

\* transcribeAudio is called: checkAborted, preferences, then validation if enabled.
Call ==
    /\ pc = "idle"
    /\ IF checkAborted(aborted)
       THEN Reject("AbortError") /\ UNCHANGED <<showNotifications, progress, probing>>
       ELSE \E enableAudioValidation \in BOOLEAN, notify \in BOOLEAN :
              /\ showNotifications' = notify
              /\ pc' = IF enableAudioValidation THEN "validating" ELSE "ffmpegPath"
              /\ probing' = IF enableAudioValidation THEN 0 ELSE 1
              /\ progress' = StageProgress(IF enableAudioValidation THEN "validation"
                                           ELSE "preparation")
              /\ UNCHANGED outcome
    /\ UNCHANGED <<auxVars, validated, aborted, abortedAt, toast, tempDir, rmCalls, schedVars>>

\* validateAudioFile has resolved.
ValidateDone ==
    /\ pc = "validating"
    /\ \E f \in AudioFiles :
         /\ validated' = f
         /\ IF ~validateAudioFile(f) THEN Reject("Error") /\ UNCHANGED <<progress, probing>>
            ELSE IF checkAborted(aborted)
            THEN Reject("AbortError") /\ UNCHANGED <<progress, probing>>
            ELSE /\ pc' = "ffmpegPath"
                 /\ probing' = 1
                 /\ progress' = StageProgress("preparation")
                 /\ UNCHANGED outcome
    /\ UNCHANGED <<auxVars, aborted, abortedAt, showNotifications, toast, tempDir, rmCalls,
                   schedVars>>

\* The pending `-version` probe of getBinaryPath("ffmpeg") has settled: if it ran,
\* getFfmpegPath resolves and mkdtemp is issued; if not, the next location is
\* probed, and after the last one the "not found" Error rejects the call.
FfmpegPathDone ==
    /\ pc = "ffmpegPath"
    /\ \E runs \in BOOLEAN :
         IF runs THEN pc' = "mkdtemp" /\ probing' = 0 /\ UNCHANGED outcome
         ELSE IF ProbeAfter(probing) # 0
         THEN probing' = ProbeAfter(probing) /\ UNCHANGED <<pc, outcome>>
         ELSE Reject("NotFoundError") /\ probing' = 0
    /\ UNCHANGED <<auxVars, progress, validated, aborted, abortedAt, showNotifications, toast,
                   tempDir, rmCalls, schedVars>>

\* fs.promises.mkdtemp has settled; with notifications on, showToast is awaited
\* next, still outside the try block.
MkdtempDone ==
    /\ pc = "mkdtemp"
    /\ \E ok \in BOOLEAN :
         IF ~ok THEN Reject("Error") /\ UNCHANGED tempDir
         ELSE /\ tempDir' = "exists"
              /\ pc' = IF showNotifications THEN "toast" ELSE "stat"
              /\ UNCHANGED outcome
    /\ UNCHANGED <<auxVars, progress, validated, probing, aborted, abortedAt, showNotifications, toast, rmCalls, schedVars>>

\* showToast has settled; the try block is entered and fs.promises.stat issued.
ToastDone ==
    /\ pc = "toast"
    /\ \E ok \in BOOLEAN :
         IF ~ok THEN Reject("Error") /\ UNCHANGED toast
         ELSE toast' = TRUE /\ pc' = "stat" /\ UNCHANGED outcome
    /\ UNCHANGED <<auxVars, progress, validated, probing, aborted, abortedAt, showNotifications, tempDir, rmCalls, schedVars>>

\* fs.promises.stat(filePath) has settled; checkAborted; chunkAudioFile is called.
StatDone ==
    /\ pc = "stat"
    /\ \E ok \in BOOLEAN :
         IF ~ok THEN EnterFinally("Error") /\ UNCHANGED progress
         ELSE IF checkAborted(aborted) THEN EnterFinally("AbortError") /\ UNCHANGED progress
         ELSE /\ pc' = "chunking"
              /\ progress' = StageProgress("chunking")
              /\ UNCHANGED <<outcome, rmCalls>>
    /\ UNCHANGED <<auxVars, validated, probing, aborted, abortedAt, showNotifications, toast, tempDir, schedVars>>

\* What chunkAudioFile can settle with: a number of chunk files, its terminal
\* error, or (only once the signal has fired) the cancellation error.
ChunkOutcomes == (1 .. MaxChunks) \cup {-1} \cup (IF aborted THEN {-2} ELSE {})

\* chunkAudioFile has settled. With chunks and no cancellation the tasks are
\* built and runWithConcurrency runs up to its first await.
ChunkDone ==
    /\ pc = "chunking"
    /\ \E r \in ChunkOutcomes :
         IF r = -1 THEN EnterFinally("Error") /\ UNCHANGED <<schedVars, progress>>
         ELSE IF r = -2 THEN EnterFinally("AbortError") /\ UNCHANGED <<schedVars, progress>>
         ELSE IF checkAborted(aborted)
         THEN /\ EnterFinally("AbortError")
              /\ nChunks' = r
              /\ UNCHANGED <<job, resp, results, executing, nextIndex, rwc,
                             processedCount, totalSize, transcription, rawResults,
                             outOfOrder, progress>>
         ELSE LET s == RunLoop(Sched, r, MAX_CONCURRENT_TRANSCRIPTIONS, aborted)
              IN  /\ nChunks' = r
                  /\ results' = [k \in 1 .. r |-> Hole]
                  /\ job' = s.job
                  /\ executing' = s.executing
                  /\ nextIndex' = s.next
                  /\ rwc' = s.rwc
                  /\ pc' = "scheduling"
                  /\ progress' = StageProgress("transcription")
                  /\ UNCHANGED <<outcome, rmCalls, resp, processedCount, totalSize,
                                 transcription, rawResults, outOfOrder>>
    /\ UNCHANGED <<auxVars, validated, probing, aborted, abortedAt, showNotifications, toast, tempDir>>

\* What transcribeAudio does when the scheduler record s is the state of
\* runWithConcurrency after a task promise settled and res is the results array:
\* on a return, sort and combine, then await getDetailedAudioMetadata; on a
\* rejection, leave the try block with the error.
Resume(s, res) ==
    /\ job' = s.job
    /\ executing' = s.executing
    /\ nextIndex' = s.next
    /\ rwc' = s.rwc
    /\ IF rwc \in {"race", "all"} /\ s.rwc = "returned"
       THEN LET sorted == SortByIndex(res)
            IN  /\ results' = sorted
                /\ transcription' = CombineTranscription(sorted)
                /\ rawResults' = CollectRaw(sorted)
                /\ pc' = "metadata"
                /\ UNCHANGED <<outcome, rmCalls>>
       ELSE IF rwc \in {"race", "all"} /\ s.rwc = "rejected"
       THEN /\ EnterFinally(s.err)
            /\ results' = res
            /\ UNCHANGED <<transcription, rawResults>>
       ELSE /\ results' = res
            /\ UNCHANGED <<pc, outcome, rmCalls, transcription, rawResults>>

\* A count that keeps the last buffer length only.
CountBufferLast(total, len) == len

\* totalSize += audioBuffer.length
CountBuffer(total, len) == total + len

\* fs.promises.readFile of chunk i has settled. On success the buffer is counted
\* and transcribeFile is called; a failure rejects the task (it is outside the
\* task's try block).
ReadDone(i) ==
    /\ job[i] = "reading"
    /\ \E ok \in BOOLEAN :
         IF ok
         THEN /\ totalSize' = CountBuffer(totalSize, ChunkBytes(i))
              /\ job' = [job EXCEPT ![i] = "calling"]
              /\ UNCHANGED <<pc, outcome, rmCalls, results, executing, nextIndex, rwc,
                             transcription, rawResults>>
         ELSE /\ Resume(AfterSettled(i, "failed", FALSE), results)
              /\ UNCHANGED totalSize
    /\ UNCHANGED <<auxVars, progress, validated, probing, aborted, abortedAt, showNotifications, toast, tempDir, nChunks,
                   resp, processedCount, outOfOrder>>

\* transcribeFile for chunk i has settled with a response of some kind; the task
\* returns its chunk result, which is stored at results[i].
CallDone(i) ==
    /\ job[i] = "calling"
    /\ \E kind \in ResponseKinds :
         /\ resp' = [resp EXCEPT ![i] = kind]
         /\ processedCount' = IF kind = "throw" THEN processedCount
                              ELSE processedCount + 1
         /\ Resume(AfterSettled(i, "done", TRUE),
                   StoreResult(results, i, TaskResult(i, kind)))
    /\ outOfOrder' = (outOfOrder \/ \E j \in Indices :
                                       j < i /\ job[j] \in {"reading", "calling"})
    /\ UNCHANGED <<auxVars, progress, validated, probing, aborted, abortedAt, showNotifications, toast, tempDir, nChunks,
                   totalSize>>

\* getDetailedAudioMetadata has resolved (it never rejects); the result object is
\* returned from the try block.
MetadataDone ==
    /\ pc = "metadata"
    /\ EnterFinally("result")
    /\ UNCHANGED <<auxVars, progress, validated, probing, aborted, abortedAt, showNotifications, toast, tempDir, schedVars>>

\* fs.promises.rm has settled; a rejection is caught and logged. The promise of
\* transcribeAudio settles with the completion of the try block.
RmDone ==
    /\ pc = "cleanup"
    /\ \E ok \in BOOLEAN : tempDir' = IF ok THEN "removed" ELSE tempDir
    /\ pc' = IF outcome = "result" THEN "resolved" ELSE "rejected"
    /\ UNCHANGED <<auxVars, progress, validated, probing, aborted, abortedAt, showNotifications, toast, rmCalls, outcome,
                   schedVars>>

\* runTranscription after transcribeAudio resolved: saveTranscription, issued
\* in the turn of the resolution, has completed (LocalStorage does not fail,
\* as in the history's own actions); setIsCompleted(true) and
\* onComplete(result) follow.
SaveDone ==
    /\ pc = "resolved"
    /\ pc' = "completed"
    /\ UNCHANGED <<auxVars, progress, validated, probing, aborted, abortedAt,
                   showNotifications, toast, tempDir, rmCalls, outcome, schedVars>>

Next ==
    \/ Abort
    \/ Call
    \/ ValidateDone
    \/ FfmpegPathDone
    \/ MkdtempDone
    \/ ToastDone
    \/ StatDone
    \/ ChunkDone
    \/ \E i \in Indices : ReadDone(i)
    \/ \E i \in Indices : CallDone(i)
    \/ MetadataDone
    \/ RmDone
    \/ SaveDone

Spec == Init /\ [][Next]_vars

----------------------------------------------------------------------------
(* chunkAudioFile (src/src/transcribe.ts): planning and the three ffmpeg  *)
(* strategies.  ffmpeg and ffprobe are external programs: whether an      *)
(* invocation succeeds, which files it leaves and how large they are is   *)
(* not decided by this code, so the model draws them from small sets.     *)

Max(a, b) == IF a >= b THEN a ELSE b

Min(a, b) == IF a <= b THEN a ELSE b

\* Source files: sizes in MB and lengths in seconds.
FileSizes == {10, 149, 150, 500, 2000}

Durations == {100, 121, 300, 600, 1200, 10800}

\* Size in MB of the largest chunk file an ffmpeg run leaves: well within the
\* ceiling, exactly at it, or above it.
OutputSizes == {1, MaxChunkMB, MaxChunkMB + 1}

\* Planning without the Math.max(MIN_CHUNK_DURATION_SECONDS, ...) clamp.
PlannedNoMinClamp(size, dur) ==
    IF dur > 0 /\ size > 0
    THEN IF size * TARGET_CHUNK_DURATION_SECONDS > MaxChunkMB * dur
         THEN (MaxChunkMB * dur) \div size
         ELSE TARGET_CHUNK_DURATION_SECONDS
    ELSE TARGET_CHUNK_DURATION_SECONDS

\* Planning that takes the size-based duration whatever the estimate.
PlannedAlwaysReduce(size, dur) ==
    IF dur > 0 /\ size > 0
    THEN Max(MIN_CHUNK_DURATION_SECONDS, (MaxChunkMB * dur) \div size)
    ELSE TARGET_CHUNK_DURATION_SECONDS

\* let chunkDuration = TARGET...; if (duration > 0 && fileSize > 0) {...}
\* bytesPerSecond = fileSize / duration, so with exact arithmetic
\*   estimatedChunkSize > MAX  iff  fileSize * TARGET > MAX * duration
\*   floor(MAX / bytesPerSecond) = floor(MAX * duration / fileSize).
\* (In double arithmetic the quotient of an exact division can round to just
\* below the integer, and the floor is then one less.)
PlannedChunkDuration(size, dur) ==
    IF dur > 0 /\ size > 0
    THEN IF size * TARGET_CHUNK_DURATION_SECONDS > MaxChunkMB * dur
         THEN Max(MIN_CHUNK_DURATION_SECONDS, (MaxChunkMB * dur) \div size)
         ELSE TARGET_CHUNK_DURATION_SECONDS
    ELSE TARGET_CHUNK_DURATION_SECONDS

\* The single-chunk condition with the ceiling itself included.
SingleChunkPlanInclusive(size, dur) ==
    size <= MaxChunkMB /\ dur <= TARGET_CHUNK_DURATION_SECONDS

\* if (fileSize < MAX_CHUNK_SIZE_BYTES && duration <= TARGET_CHUNK_DURATION_SECONDS)
SingleChunkPlan(size, dur) ==
    size < MaxChunkMB /\ dur <= TARGET_CHUNK_DURATION_SECONDS

\* A fallback that halves the duration without the lower clamp.
ReducedDurationUnclamped(cd) == cd \div 2

\* A fallback that does not halve the duration.
ReducedDurationSame(cd) == Max(MIN_CHUNK_DURATION_SECONDS, cd)

\* Math.max(MIN_CHUNK_DURATION_SECONDS, Math.floor(chunkDuration * 0.5))
ReducedDuration(cd) == Max(MIN_CHUNK_DURATION_SECONDS, cd \div 2)

\* The -segment_time argument of the stage's segmentation command, cd being the
\* planned chunkDuration: ${chunkDuration} for WAV, ${reducedDuration} for MP3.
SegmentTime(stage, cd) == IF stage = "mp3" THEN ReducedDuration(cd) ELSE cd

\* Number of files ffmpeg's segment muxer writes for audio of length len cut
\* every segmentTime seconds.
Segments(len, segmentTime) == (len + segmentTime - 1) \div segmentTime

\* What the pipeline and the other components hold while chunkAudioFile runs.
chunkFrame == <<abortedAt, pipeVars, schedVars, segVars, poolVars, storeVars>>

\* chunkAudioFile is about to be called on some source file.
\* How the ffprobe invocation of getAudioDuration can end: the tool is missing,
\* it exits with an error, or it prints nothing, a non-numeric text ("N/A"),
\* a non-finite number ("Infinity"), or the duration.
ProbeOutcomes ==
    {"toolMissing", "invocationError", "empty", "nonNumeric", "nonFinite", "number"}

\* parseFloat(stdout.trim()) for the kinds of output above, d being the number
\* printed: NaN for an empty or non-numeric text, Infinity for "Infinity".
ParseFloat(out, d) ==
    CASE out = "number" -> [isNaN |-> FALSE, isFinite |-> TRUE, value |-> d]
      [] out = "nonFinite" -> [isNaN |-> FALSE, isFinite |-> FALSE, value |-> 0]
      [] OTHER -> [isNaN |-> TRUE, isFinite |-> FALSE, value |-> 0]

\* A getAudioDuration whose "unknown" value is the target duration.
getAudioDurationTarget(out, d) ==
    IF out \in {"toolMissing", "invocationError"} THEN TARGET_CHUNK_DURATION_SECONDS
    ELSE LET parsed == ParseFloat(out, d)
         IN  IF ~parsed.isNaN /\ parsed.isFinite THEN parsed.value
             ELSE TARGET_CHUNK_DURATION_SECONDS

\* getAudioDuration: a rejected execPromise is caught and 0 returned; otherwise
\* the parsed number if it is one and finite, else 0.
getAudioDuration(out, d) ==
    IF out \in {"toolMissing", "invocationError"} THEN 0
    ELSE LET parsed == ParseFloat(out, d)
         IN  IF ~parsed.isNaN /\ parsed.isFinite THEN parsed.value ELSE 0

InitChunk ==
    /\ PipelineIdle
    /\ SegmenterIdle
    /\ PoolIdle
    /\ StoreIdle
    /\ cpc = "idle"
    /\ fileSize \in FileSizes
    /\ trueDuration \in Durations
    /\ probe = NoProbe
    /\ duration = 0
    /\ chunkDuration = 0
    /\ dir = EmptyDir
    /\ ret = NoReturn
    /\ ffmpegLog = <<>>
    /\ abortedIn = "never"

\* chunkAudioFile rejects with e.
Throw(e) ==
    /\ cpc' = "threw"
    /\ ret' = [ret EXCEPT !.error = e]
    /\ UNCHANGED ffmpegLog

\* chunkAudioFile returns { chunks, format }: n files of the given format.
Return(n, fmt, largest) ==
    /\ cpc' = "returned"
    /\ ret' = [chunks |-> n, format |-> fmt, maxSize |-> largest, error |-> "none"]
    /\ UNCHANGED ffmpegLog

\* execPromise(command, { signal }) is issued for the given strategy (stage).
Exec(stage) ==
    /\ cpc' = stage
    /\ ffmpegLog' = Append(ffmpegLog, stage)
    /\ UNCHANGED ret

\* A chunkAudioFile that goes to the compressed format first.
TryWavAsMp3 == IF checkAborted(aborted) THEN Throw("AbortError") ELSE Exec("mp3")

\* checkAborted(signal) at line 119, then the WAV segmentation command.
TryWav == IF checkAborted(aborted) THEN Throw("AbortError") ELSE Exec("wav")

\* checkAborted(signal) at line 156, then the MP3 segmentation command.
TryMp3 == IF checkAborted(aborted) THEN Throw("AbortError") ELSE Exec("mp3")

\* The user cancels while chunkAudioFile is running.
Cancel ==
    /\ ~aborted
    /\ cpc \notin {"returned", "threw"}
    /\ aborted' = TRUE
    /\ abortedIn' = cpc
    /\ UNCHANGED <<chunkFrame, cpc, fileSize, trueDuration, probe, duration, chunkDuration,
                   dir, ret, ffmpegLog>>

\* chunkAudioFile is called: checkAborted, then stat of the source file.
ChunkCall ==
    /\ cpc = "idle"
    /\ IF checkAborted(aborted) THEN Throw("AbortError")
       ELSE cpc' = "stat" /\ UNCHANGED <<ret, ffmpegLog>>
    /\ UNCHANGED <<chunkFrame, aborted, abortedIn, fileSize, trueDuration, probe, duration,
                   chunkDuration, dir>>

\* fs.promises.stat(filePath) has settled; getAudioDuration starts ffprobe.
SourceStatDone ==
    /\ cpc = "stat"
    /\ \E ok \in BOOLEAN :
         IF ~ok THEN Throw("StatError") /\ UNCHANGED probe
         ELSE /\ cpc' = "probe"
              /\ probe' = [probe EXCEPT !.calls = @ + 1]
              /\ UNCHANGED <<ret, ffmpegLog>>
    /\ UNCHANGED <<chunkFrame, aborted, abortedIn, fileSize, trueDuration, duration,
                   chunkDuration, dir>>

\* The ffprobe invocation has settled and getAudioDuration resolved (0 when
\* ffprobe failed or printed no finite number); the duration is planned and the
\* first ffmpeg command is issued.
ProbeDone ==
    /\ cpc = "probe"
    /\ \E out \in ProbeOutcomes :
         LET d == getAudioDuration(out, trueDuration) IN
           /\ probe' = [probe EXCEPT !.outcome = out]
           /\ duration' = d
           /\ chunkDuration' = PlannedChunkDuration(fileSize, d)
           /\ IF SingleChunkPlan(fileSize, d) THEN Exec("single") ELSE TryWav
    /\ UNCHANGED <<chunkFrame, aborted, abortedIn, fileSize, trueDuration, dir>>

\* The single-chunk conversion has settled.  A failed run may leave a partial
\* chunk_000.wav behind.
SingleExecDone ==
    /\ cpc = "single"
    /\ IF aborted THEN Throw("AbortError") /\ UNCHANGED dir
       ELSE \/ \E size \in {0} \cup OutputSizes :
                 /\ dir' = [dir EXCEPT !.wav = 1, !.wavMax = size]
                 /\ cpc' = "singleStat"
                 /\ UNCHANGED <<ret, ffmpegLog>>
            \/ \E partial \in BOOLEAN :
                 /\ dir' = IF partial THEN [dir EXCEPT !.wav = 1, !.wavMax = 1] ELSE dir
                 /\ TryWav
    /\ UNCHANGED <<chunkFrame, aborted, abortedIn, fileSize, trueDuration, probe, duration,
                   chunkDuration>>

\* fs.promises.stat(singleChunkPath) has settled.
SingleStatDone ==
    /\ cpc = "singleStat"
    /\ \E ok \in BOOLEAN :
         IF ok /\ dir.wavMax > 0 THEN Return(1, "wav", dir.wavMax) ELSE TryWav
    /\ UNCHANGED <<chunkFrame, aborted, abortedIn, fileSize, trueDuration, probe, duration,
                   chunkDuration, dir>>

\* Files in tempDir after a segmentation run that wrote n files of the format
\* (chunk_000 ... overwrite what was there under the same names).
Written(d, fmt, n, size) ==
    IF n = 0 THEN d
    ELSE IF fmt = "wav" THEN [d EXCEPT !.wav = Max(d.wav, n), !.wavMax = size]
    ELSE [d EXCEPT !.mp3 = Max(d.mp3, n), !.mp3Max = size]

\* The WAV segmentation command has settled; on success checkAborted (127)
\* and readdir follow.  A failed run may leave some chunk files behind.
WavExecDone ==
    /\ cpc = "wav"
    /\ IF aborted THEN Throw("AbortError") /\ UNCHANGED dir
       ELSE \/ \E n \in {0, Segments(trueDuration, SegmentTime("wav", chunkDuration))}, size \in OutputSizes :
                 /\ dir' = Written(dir, "wav", n, size)
                 /\ cpc' = "wavReaddir"
                 /\ UNCHANGED <<ret, ffmpegLog>>
            \/ \E partial \in {0, 1} :
                 /\ dir' = Written(dir, "wav", partial, 1)
                 /\ TryMp3
    /\ UNCHANGED <<chunkFrame, aborted, abortedIn, fileSize, trueDuration, probe, duration,
                   chunkDuration>>

\* readdir(tempDir) of the WAV attempt has settled.
WavReaddirDone ==
    /\ cpc = "wavReaddir"
    /\ \E ok \in BOOLEAN :
         IF ok /\ dir.wav > 0 THEN cpc' = "wavStat" /\ UNCHANGED <<ret, ffmpegLog>>
         ELSE TryMp3
    /\ UNCHANGED <<chunkFrame, aborted, abortedIn, fileSize, trueDuration, probe, duration,
                   chunkDuration, dir>>

\* The size checks of the WAV chunks have settled.
WavStatDone ==
    /\ cpc = "wavStat"
    /\ \E ok \in BOOLEAN :
         IF ~ok THEN TryMp3
         ELSE IF ~(dir.wavMax * MB > MAX_CHUNK_SIZE_BYTES)
              THEN Return(dir.wav, "wav", dir.wavMax)
              ELSE cpc' = "wavUnlink" /\ UNCHANGED <<ret, ffmpegLog>>
    /\ UNCHANGED <<chunkFrame, aborted, abortedIn, fileSize, trueDuration, probe, duration,
                   chunkDuration, dir>>

\* The unlinks of the oversized WAV chunks have settled (failures are swallowed).
WavUnlinkDone ==
    /\ cpc = "wavUnlink"
    /\ \E removed \in BOOLEAN :
         dir' = IF removed THEN [dir EXCEPT !.wav = 0, !.wavMax = 0] ELSE dir
    /\ TryMp3
    /\ UNCHANGED <<chunkFrame, aborted, abortedIn, fileSize, trueDuration, probe, duration,
                   chunkDuration>>

\* The MP3 segmentation command has settled; on success checkAborted (165)
\* and readdir follow, on failure the terminal error is thrown.
Mp3ExecDone ==
    /\ cpc = "mp3"
    /\ IF aborted THEN Throw("AbortError") /\ UNCHANGED dir
       ELSE \/ \E n \in {0, Segments(trueDuration, SegmentTime("mp3", chunkDuration))},
                  size \in OutputSizes :
                 /\ dir' = Written(dir, "mp3", n, size)
                 /\ cpc' = "mp3Readdir"
                 /\ UNCHANGED <<ret, ffmpegLog>>
            \/ \E partial \in {0, 1} :
                 /\ dir' = Written(dir, "mp3", partial, 1)
                 /\ Throw("ChunkError")
    /\ UNCHANGED <<chunkFrame, aborted, abortedIn, fileSize, trueDuration, probe, duration,
                   chunkDuration>>

\* readdir(tempDir) of the MP3 attempt has settled.
Mp3ReaddirDone ==
    /\ cpc = "mp3Readdir"
    /\ \E ok \in BOOLEAN :
         IF ok /\ dir.mp3 > 0 THEN Return(dir.mp3, "mp3", dir.mp3Max)
         ELSE Throw("ChunkError")
    /\ UNCHANGED <<chunkFrame, aborted, abortedIn, fileSize, trueDuration, probe, duration,
                   chunkDuration, dir>>

NextChunk ==
    \/ Cancel
    \/ ChunkCall
    \/ SourceStatDone
    \/ ProbeDone
    \/ SingleExecDone
    \/ SingleStatDone
    \/ WavExecDone
    \/ WavReaddirDone
    \/ WavStatDone
    \/ WavUnlinkDone
    \/ Mp3ExecDone
    \/ Mp3ReaddirDone

SpecChunk == InitChunk /\ [][NextChunk]_vars

----------------------------------------------------------------------------
(* runFfmpeg and segmentAudioWithRetry of the documented version          *)
(* (src/README.md): two strategies of three attempts each, every attempt  *)
(* one runFfmpeg call that retries a failed command once.                 *)

\* runFfmpeg(command, signal, retries = 1)
FFMPEG_RETRIES == 1

\* for (let attempt = 0; attempt < 3; attempt++)
ATTEMPTS_PER_STRATEGY == 3

DEFAULT_TARGET_CHUNK_SIZE_MB == 150

\* The durations transcribeAudio passes in: Math.min(300, sizeBasedDuration).
InitialDurations == {20, 45, 300}

\* The reduction without the lower clamp of 30 s.
ReduceUnclamped(d, strat) == (d * (IF strat = "copy" THEN 7 ELSE 8)) \div 10

\* Math.max(30, Math.floor(chunkDuration * 0.7)), with 0.8 for mp3.
Reduce(d, strat) == Max(30, (d * (IF strat = "copy" THEN 7 ELSE 8)) \div 10)

segFrame == <<abortedAt, pipeVars, schedVars, chunkVars, poolVars, storeVars>>

\* segmentAudioWithRetry is about to be called.
InitSeg ==
    /\ PipelineIdle
    /\ ChunkerIdle
    /\ PoolIdle
    /\ StoreIdle
    /\ spc = "idle"
    /\ strategy = "copy"
    /\ attempt = 0
    /\ ffAttempt = 0
    /\ segDuration = 0
    /\ initialDuration \in InitialDurations
    /\ segFiles = [f \in {"copy", "mp3"} |-> [n |-> 0, max |-> 0]]
    /\ segError = "none"
    /\ segLog = <<>>
    /\ abortRaised = -1

\* A runFfmpeg that gives up at the first failure.
RetryNever(att) == FALSE

\* if (attempt < retries) in the catch block of runFfmpeg: retry the command.
ShouldRetry(att) == att < FFMPEG_RETRIES

\* A loop iteration begins: the segment command is built with the current
\* duration and runFfmpeg issues its first execPromise.
StartAttempt(strat, att, dur) ==
    /\ strategy' = strat
    /\ attempt' = att
    /\ ffAttempt' = 0
    /\ segDuration' = dur
    /\ spc' = "exec"
    /\ segLog' = Append(segLog, [strategy |-> strat, duration |-> dur])
    /\ UNCHANGED segError

\* A loop that runs one more iteration per strategy.
MoreAttemptsFour(att) == att < ATTEMPTS_PER_STRATEGY + 1

\* The loop condition attempt < 3 of both for loops.
MoreAttempts(att) == att < ATTEMPTS_PER_STRATEGY

\* A loop iteration ends with chunkDuration = dur: the next iteration, the
\* next strategy (chunkDuration reset to Math.max(60, initialDuration)), or
\* the final throw.
NextAttempt(dur) ==
    IF MoreAttempts(attempt + 1) THEN StartAttempt(strategy, attempt + 1, dur)
    ELSE IF strategy = "copy" THEN StartAttempt("mp3", 0, Max(60, initialDuration))
    ELSE /\ spc' = "threw"
         /\ segError' = "UnableToChunk"
         /\ segDuration' = dur
         /\ UNCHANGED <<strategy, attempt, ffAttempt, segLog>>

\* The attempt moves on to another await of the same iteration.
Await(at) ==
    /\ spc' = at
    /\ UNCHANGED <<strategy, attempt, ffAttempt, segDuration, segError, segLog>>

\* The user cancels while segmentAudioWithRetry is running.
CancelSeg ==
    /\ ~aborted
    /\ spc \notin {"returned", "threw"}
    /\ aborted' = TRUE
    /\ UNCHANGED <<segFrame, segVars>>

SegCall ==
    /\ spc = "idle"
    /\ StartAttempt("copy", 0, initialDuration)
    /\ UNCHANGED <<segFrame, aborted, initialDuration, segFiles, abortRaised>>

\* execPromise(command, { signal }) inside runFfmpeg has settled.  An
\* AbortError is rethrown by runFfmpeg and lands in the catch block of
\* segmentAudioWithRetry, as does the error after the last retry.
SegExecDone ==
    /\ spc = "exec"
    /\ IF aborted
       THEN /\ Await("cleanup")
            /\ abortRaised' = IF abortRaised = -1 THEN Len(segLog) ELSE abortRaised
            /\ UNCHANGED segFiles
       ELSE /\ UNCHANGED abortRaised
            /\ \/ \E n \in {0, 2}, size \in OutputSizes :
                    /\ segFiles' = IF n = 0 THEN segFiles
                                   ELSE [segFiles EXCEPT ![strategy] = [n |-> n, max |-> size]]
                    /\ Await("readdir")
               \/ \E partial \in {0, 1} :
                    /\ segFiles' = IF partial = 0 THEN segFiles
                                   ELSE [segFiles EXCEPT ![strategy] =
                                            [n |-> Max(@.n, 1), max |-> Max(@.max, 1)]]
                    /\ IF ShouldRetry(ffAttempt)
                       THEN /\ ffAttempt' = ffAttempt + 1
                            /\ spc' = "exec"
                            /\ segLog' = Append(segLog, [strategy |-> strategy,
                                                         duration |-> segDuration])
                            /\ UNCHANGED <<strategy, attempt, segDuration, segError>>
                       ELSE Await("cleanup")
    /\ UNCHANGED <<segFrame, aborted, initialDuration>>

\* readdir(tempDir) after a successful runFfmpeg has settled.
SegReaddirDone ==
    /\ spc = "readdir"
    /\ \E ok \in BOOLEAN :
         IF ~ok THEN Await("cleanup")
         ELSE IF segFiles[strategy].n > 0 THEN Await("stat")
         ELSE NextAttempt(segDuration)
    /\ UNCHANGED <<segFrame, aborted, initialDuration, segFiles, abortRaised>>

\* The size checks of the chunk files have settled.
SegStatDone ==
    /\ spc = "stat"
    /\ \E ok \in BOOLEAN :
         IF ~ok THEN Await("cleanup")
         ELSE IF ~(segFiles[strategy].max > DEFAULT_TARGET_CHUNK_SIZE_MB)
              THEN Await("returned")
              ELSE Await("unlink")
    /\ UNCHANGED <<segFrame, aborted, initialDuration, segFiles, abortRaised>>

\* The unlinks of the oversized attempt have settled; a failed unlink throws
\* into the catch block.
SegUnlinkDone ==
    /\ spc = "unlink"
    /\ \E ok \in BOOLEAN :
         IF ok
         THEN /\ segFiles' = [segFiles EXCEPT ![strategy] = [n |-> 0, max |-> 0]]
              /\ NextAttempt(Reduce(segDuration, strategy))
         ELSE /\ UNCHANGED segFiles
              /\ Await("cleanup")
    /\ UNCHANGED <<segFrame, aborted, initialDuration, abortRaised>>

\* The catch block has settled: readdir, unlinks (failures swallowed), then the
\* reduction of chunkDuration.  A failing readdir rejects segmentAudioWithRetry.
SegCleanupDone ==
    /\ spc = "cleanup"
    /\ \/ \E removed \in BOOLEAN :
            /\ segFiles' = IF removed
                            THEN [segFiles EXCEPT ![strategy] = [n |-> 0, max |-> 0]]
                            ELSE segFiles
            /\ NextAttempt(Reduce(segDuration, strategy))
       \/ /\ spc' = "threw"
          /\ segError' = "FsError"
          /\ UNCHANGED <<strategy, attempt, ffAttempt, segDuration, segLog, segFiles>>
    /\ UNCHANGED <<segFrame, aborted, initialDuration, abortRaised>>

NextSeg ==
    \/ CancelSeg
    \/ SegCall
    \/ SegExecDone
    \/ SegReaddirDone
    \/ SegStatDone
    \/ SegUnlinkDone
    \/ SegCleanupDone

SpecSeg == InitSeg /\ [][NextSeg]_vars

\* The steps of segmentAudioWithRetry itself: the call and the continuations
\* that run when an awaited ffmpeg invocation or file-system operation settles.
SegStep ==
    \/ SegCall
    \/ SegExecDone
    \/ SegReaddirDone
    \/ SegStatDone
    \/ SegUnlinkDone
    \/ SegCleanupDone

\* Every awaited operation settles (an ffmpeg child exits or is killed, a
\* file-system promise settles) and the event loop then runs the continuation.
SpecSegFair == SpecSeg /\ WF_vars(SegStep)

----------------------------------------------------------------------------
(* The transcription stage of the documented version (src/README.md): the *)
(* worker pool runWithConcurrency(tasks, limit), which takes no signal,   *)
(* raced against a promise that rejects on the signal's abort event.      *)

poolFrame == <<abortedAt, pipeVars, schedVars, chunkVars, segVars, storeVars>>

\* The kind of result a task of createTranscriptionTask returns.
PoolResultKind(kind) ==
    CASE kind = "ok" -> "transcript"
      [] kind \in {"empty", "malformed"} -> "noTranscription"
      [] kind = "error" -> "transcriptionError"
      [] OTHER -> "processingError"

\* The chunk list is known and the task list is about to be built.
InitPool ==
    /\ PipelineIdle
    /\ ChunkerIdle
    /\ SegmenterIdle
    /\ PoolIdle
    /\ StoreIdle

\* The user cancels.  While transcribeAudio awaits the race, the abort
\* listener rejects abortPromise and with it the race.
PoolCancel ==
    /\ ~aborted
    /\ ppc \in {"idle", "racing"}
    /\ aborted' = TRUE
    /\ ppc' = IF ppc = "racing" THEN "rejected" ELSE ppc
    /\ UNCHANGED <<poolFrame, nTasks, poolIndex, pjob, presults, pProcessed, lateStarts>>

\* chunkFiles.map builds the tasks (throwing AbortError if the signal is set),
\* the abort listener is added and runWithConcurrency starts
\* Math.min(limit, tasks.length) workers, each of which takes index++ and
\* runs its task up to the readFile await.
PoolStart ==
    /\ ppc = "idle"
    /\ IF aborted
       THEN /\ ppc' = "rejected"
            /\ UNCHANGED <<nTasks, poolIndex, pjob>>
       ELSE \E n \in 1 .. MaxChunks :
              /\ nTasks' = n
              /\ poolIndex' = Min(MAX_CONCURRENT_TRANSCRIPTIONS, n)
              /\ pjob' = [i \in Indices |->
                            IF i < Min(MAX_CONCURRENT_TRANSCRIPTIONS, n)
                            THEN "reading" ELSE "unstarted"]
              /\ ppc' = "racing"
    /\ UNCHANGED <<poolFrame, aborted, presults, pProcessed, lateStarts>>

\* Task i has returned a result of the given kind to its worker: the worker
\* stores it and, while (index < tasks.length), takes index++ and starts that
\* task; otherwise the worker ends, and when the last one ends Promise.all and
\* runWithConcurrency resolve, which settles the race if it is still pending.
WorkerContinue(i, kind) ==
    /\ presults' = [presults EXCEPT ![i] = kind]
    /\ IF poolIndex < nTasks
       THEN /\ pjob' = [pjob EXCEPT ![i] = "done", ![poolIndex] = "reading"]
            /\ poolIndex' = poolIndex + 1
            /\ lateStarts' = IF aborted THEN lateStarts \cup {poolIndex} ELSE lateStarts
            /\ UNCHANGED ppc
       ELSE /\ pjob' = [pjob EXCEPT ![i] = "done"]
            /\ UNCHANGED <<poolIndex, lateStarts>>
            /\ ppc' = IF ppc = "racing" /\ \A j \in 0 .. (nTasks - 1) : j = i \/ pjob[j] = "done"
                      THEN "resolved" ELSE ppc

\* fs.promises.readFile of task i has settled; a failure is caught by the
\* task, which returns its processing-error placeholder.
PoolReadDone(i) ==
    /\ pjob[i] = "reading"
    /\ \/ /\ pjob' = [pjob EXCEPT ![i] = "calling"]
          /\ UNCHANGED <<ppc, poolIndex, presults, lateStarts>>
       \/ WorkerContinue(i, "processingError")
    /\ UNCHANGED <<poolFrame, aborted, nTasks, pProcessed>>

\* transcribeFile of task i has settled (the toast is off, so the task
\* returns in the same turn).
PoolCallDone(i) ==
    /\ pjob[i] = "calling"
    /\ \E kind \in ResponseKinds :
         /\ pProcessed' = IF kind = "throw" THEN pProcessed ELSE pProcessed + 1
         /\ WorkerContinue(i, PoolResultKind(kind))
    /\ UNCHANGED <<poolFrame, aborted, nTasks>>

NextPool ==
    \/ PoolCancel
    \/ PoolStart
    \/ \E i \in Indices : PoolReadDone(i)
    \/ \E i \in Indices : PoolCallDone(i)

SpecPool == InitPool /\ [][NextPool]_vars

----------------------------------------------------------------------------
(* The transcription history: saveTranscription and removeTranscriptionItem of
   src/src/storage.ts.  Each call reads the stored array (getTranscriptionHistory),
   changes its copy and writes it back; one step is one awaited LocalStorage
   operation.  An item is identified by its save number, which stands for its
   (filePath, timestamp) pair; JSON.stringify and JSON.parse carry an array of
   such items unchanged. *)

\* Largest number of saveTranscription calls, of calls started while another
\* is in flight, and of removeTranscriptionItem calls.
MaxSaves == 12
MaxOverlaps == 1
MaxRemoves == 1

\* Values of the historyLimit preference.
HistoryLimitPrefs == {"undefined", "-1", "0", "2"}

\* parseInt of the strings above and of the default "10".
ParseInt(str) ==
    CASE str = "10" -> [isNaN |-> FALSE, value |-> 10]
      [] str = "2" -> [isNaN |-> FALSE, value |-> 2]
      [] str = "0" -> [isNaN |-> FALSE, value |-> 0]
      [] str = "-1" -> [isNaN |-> FALSE, value |-> -1]
      [] OTHER -> [isNaN |-> TRUE, value |-> 0]

\* const historyLimit = parseInt(preferences.historyLimit || "10");
\* const maxItems = historyLimit === -1 ? undefined : historyLimit;
MaxItems(pref) ==
    LET parsed == ParseInt(IF pref \in {"undefined", ""} THEN "10" ELSE pref)
    IN  IF ~parsed.isNaN /\ parsed.value = -1
        THEN [defined |-> FALSE, isNaN |-> FALSE, value |-> 0]
        ELSE [defined |-> TRUE, isNaN |-> parsed.isNaN, value |-> parsed.value]

\* The truthiness of maxItems: undefined, NaN and 0 are falsy.
Truthy(m) == m.defined /\ ~m.isNaN /\ m.value # 0

\* history.slice(0, k)
Slice(h, k) ==
    IF k >= 0 THEN SubSeq(h, 1, Min(k, Len(h)))
    ELSE SubSeq(h, 1, Max(Len(h) + k, 0))

\* history.unshift(item)
Unshift(h, item) == <<item>> \o h

\* A saveTranscription that never trims.
TrimmedHistoryUntrimmed(h, pref) == h

\* const trimmedHistory = maxItems ? history.slice(0, maxItems) : history;
TrimmedHistory(h, pref) ==
    LET maxItems == MaxItems(pref)
    IN  IF Truthy(maxItems) THEN Slice(h, maxItems.value) ELSE h

\* history.filter((historyItem) => historyItem is not item)
WithoutItem(h, item) == SelectSeq(h, LAMBDA x : x # item)

\* getTranscriptionHistory: historyString ? JSON.parse(historyString) : []
getTranscriptionHistory(st) == IF st.present THEN st.items ELSE <<>>

storeFrame == <<aborted, abortedAt, pipeVars, schedVars, chunkVars, segVars, poolVars>>

InitStore ==
    /\ PipelineIdle
    /\ ChunkerIdle
    /\ SegmenterIdle
    /\ PoolIdle
    /\ historyLimit \in HistoryLimitPrefs
    /\ stored = NothingStored
    /\ saved = 0
    /\ call = [c \in Callers |-> NoCall]
    /\ overlaps = 0
    /\ removedItems = {}

\* Caller c starts a storage call; it counts as an overlap if the other caller
\* has a call in flight.
Overlap(c) ==
    LET busy == \E d \in Callers \ {c} : call[d].phase # "idle"
    IN  /\ busy => overlaps < MaxOverlaps
        /\ overlaps' = IF busy THEN overlaps + 1 ELSE overlaps

\* saveTranscription(item) is called: the preference is read and
\* LocalStorage.getItem is issued.
SaveCall(c) ==
    /\ call[c].phase = "idle"
    /\ saved < MaxSaves
    /\ Overlap(c)
    /\ saved' = saved + 1
    /\ call' = [call EXCEPT ![c] = [op |-> "save", item |-> saved + 1, phase |-> "get",
                                    history |-> <<>>]]
    /\ UNCHANGED <<storeFrame, historyLimit, stored, removedItems>>

\* removeTranscriptionItem(item) is called for an item of the stored history:
\* LocalStorage.getItem is issued.
RemoveCall(c) ==
    /\ call[c].phase = "idle"
    /\ Cardinality(removedItems) < MaxRemoves
    /\ Overlap(c)
    /\ \E k \in 1 .. Len(stored.items) :
         /\ removedItems' = removedItems \cup {stored.items[k]}
         /\ call' = [call EXCEPT ![c] = [op |-> "remove", item |-> stored.items[k],
                                         phase |-> "get", history |-> <<>>]]
    /\ UNCHANGED <<storeFrame, historyLimit, stored, saved>>

\* LocalStorage.getItem has resolved: the call computes the array it will store
\* and issues LocalStorage.setItem.
GetDone(c) ==
    /\ call[c].phase = "get"
    /\ LET history == getTranscriptionHistory(stored)
           next == IF call[c].op = "save"
                   THEN TrimmedHistory(Unshift(history, call[c].item), historyLimit)
                   ELSE WithoutItem(history, call[c].item)
       IN  call' = [call EXCEPT ![c].phase = "set", ![c].history = next]
    /\ UNCHANGED <<storeFrame, historyLimit, stored, saved, overlaps, removedItems>>

\* LocalStorage.setItem has resolved: the array is stored and the call returns.
SetDone(c) ==
    /\ call[c].phase = "set"
    /\ stored' = [present |-> TRUE, items |-> call[c].history]
    /\ call' = [call EXCEPT ![c] = NoCall]
    /\ UNCHANGED <<storeFrame, historyLimit, saved, overlaps, removedItems>>

NextStore ==
    \/ \E c \in Callers : SaveCall(c)
    \/ \E c \in Callers : RemoveCall(c)
    \/ \E c \in Callers : GetDone(c)
    \/ \E c \in Callers : SetDone(c)

SpecStore == InitStore /\ [][NextStore]_vars

----------------------------------------------------------------------------
(* Properties *)

Settled == pc \in {"resolved", "rejected"}

\* The chunk indices of this run.
Chunks == {i \in Indices : i < nChunks}

\* Jobs that have been started and have not settled.
InFlight == {i \in Indices : job[i] \in {"reading", "calling"}}

\* Chunks whose transcription call errored (service error or thrown failure).
Failed == {i \in Chunks : resp[i] \in {"error", "throw"}}

\* The transcript text the service delivered for chunk i ("" when it delivered none).
DeliveredText(i) == IF resp[i] = "ok" THEN StubTranscript(i) ELSE <<>>

\* The non-empty delivered texts of chunks k .. n-1, ascending, single-space joined.
RECURSIVE JoinAscending(_, _)
JoinAscending(k, n) ==
    IF k >= n THEN <<>>
    ELSE LET t == DeliveredText(k)
             rest == JoinAscending(k + 1, n)
         IN  IF t = <<>> THEN rest
             ELSE IF rest = <<>> THEN t
             ELSE t \o <<" ">> \o rest

\* C1: whenever runWithConcurrency has returned, whatever the order in which the
\* jobs completed, the combined transcript is the per-chunk texts in ascending
\* chunk index, the non-empty ones joined by one space, trimmed.
C1_TranscriptInIndexOrder ==
    rwc = "returned" => transcription = Trim(JoinAscending(0, nChunks))

\* C1 witness: a run of at least three chunks, all with text, in which some job
\* completed before a lower-index one, has resolved.
C1_Witness ==
    /\ pc = "resolved"
    /\ nChunks >= 3
    /\ outOfOrder
    /\ \A i \in Chunks : resp[i] = "ok"

\* C2: at most MAX_CONCURRENT_TRANSCRIPTIONS jobs are started and not yet settled.
C2_InFlightBounded == Cardinality(InFlight) <= MAX_CONCURRENT_TRANSCRIPTIONS

\* C2 witness: the pool is full again after a job settled and a fourth was started.
C2_Witness ==
    /\ Cardinality(InFlight) = MAX_CONCURRENT_TRANSCRIPTIONS
    /\ nextIndex > MAX_CONCURRENT_TRANSCRIPTIONS
    /\ \E i \in Chunks : job[i] = "done"

\* C3 (as claimed): if the signal fired while the scheduler was running jobs, then
\* transcribeAudio settles by rejecting with AbortError, not by resolving with a
\* result, and the temporary directory is gone once it has settled. Stated for
\* the runs in which every chunk read succeeds; a directory that the one rm call
\* failed to delete is not held against the claim.
C3_CancelMidSchedulingRejects ==
    (/\ abortedAt = "scheduling"
     /\ Settled
     /\ \A i \in Chunks : job[i] # "failed")
    => (/\ pc = "rejected"
        /\ outcome = "AbortError"
        /\ (tempDir = "removed" \/ rmCalls = 1))

\* C4 (as claimed): every settled run that created the temporary directory has
\* issued exactly one recursive removal of it.
C4_RemovedExactlyOnce ==
    (Settled /\ tempDir # "none") => rmCalls = 1

\* C5 (as claimed): while the removal of the temporary directory is under way no
\* started task still has its chunk-file read pending.
C5_NoReadPendingAtRemoval ==
    pc = "cleanup" => \A i \in Chunks : job[i] # "reading"

\* C6: a chunk whose call ended in a service error or a thrown failure has the
\* result {index, "", null}; such failures never reject the batch (a rejection
\* after chunking is the cancellation or a failed chunk read), and a run that
\* resolves has transcribed every chunk.
C6_CallFailureIsEmptyResult ==
    /\ \A i \in Failed :
         /\ job[i] = "done"
         /\ results[i + 1] = [index |-> i, transcription |-> <<>>, rawData |-> Null]
    /\ (rwc = "rejected") => (aborted \/ \E i \in Chunks : job[i] = "failed")
    /\ (pc = "resolved") => \A i \in Chunks : job[i] = "done"

\* C6 witness: a run with a service error, a thrown failure and a good chunk resolved.
C6_Witness ==
    /\ pc = "resolved"
    /\ \E i, j, k \in Chunks : resp[i] = "error" /\ resp[j] = "throw" /\ resp[k] = "ok"

\* The indices of Chunks \ Failed from k up, ascending.
RECURSIVE Survivors(_, _)
Survivors(k, n) ==
    IF k >= n THEN <<>>
    ELSE IF k \in Failed THEN Survivors(k + 1, n)
    ELSE <<k>> \o Survivors(k + 1, n)

\* The text the service delivered for the chunks of idx, non-empty ones only.
RECURSIVE SurvivorTexts(_)
SurvivorTexts(idx) ==
    IF idx = <<>> THEN <<>>
    ELSE IF DeliveredText(Head(idx)) = <<>> THEN SurvivorTexts(Tail(idx))
    ELSE <<DeliveredText(Head(idx))>> \o SurvivorTexts(Tail(idx))

\* C7: for every set Failed of chunks whose call errored, the transcript is the
\* text of the other chunks in index order with nothing for the failed ones, and
\* the raw-payload list is exactly the payloads of the other chunks in index
\* order, so its length is nChunks - |Failed|.
C7_PartialFailureAggregate ==
    rwc = "returned" =>
        LET idx == Survivors(0, nChunks)
        IN  /\ transcription = Trim(JoinSpace(SurvivorTexts(idx)))
            /\ Len(rawResults) = nChunks - Cardinality(Failed)
            /\ \A k \in 1 .. Len(idx) :
                 rawResults[k] = ResultOf(idx[k], resp[idx[k]])

\* C7 witness: exactly one of at least four chunks failed, the others have text.
C7_Witness ==
    /\ pc = "resolved"
    /\ nChunks >= 4
    /\ Cardinality(Failed) = 1
    /\ \A i \in Chunks \ Failed : resp[i] = "ok"
    /\ Len(rawResults) = nChunks - 1

\* C8 (as claimed): a response without error and without a transcript field gives
\* a chunk result with empty text and a null raw payload.
C8_MalformedHasNullPayload ==
    \A i \in Chunks :
        resp[i] = "malformed" =>
            /\ results[i + 1].transcription = <<>>
            /\ results[i + 1].rawData = Null

\* C9: when runWithConcurrency has returned, results has one entry per chunk file,
\* no slot is unfilled, every chunk had exactly one job started, and entry i is
\* what the job of chunk i returned.
C9_OneResultPerChunk ==
    rwc = "returned" =>
        /\ Len(results) = nChunks
        /\ nextIndex = nChunks
        /\ \A i \in Chunks :
             /\ job[i] = "done"
             /\ results[i + 1] # Hole
             /\ results[i + 1] = TaskResult(i, resp[i])

\* C9 witness: a run of MaxChunks chunks with out-of-order completions returned.
C9_Witness ==
    /\ rwc = "returned"
    /\ nChunks = MaxChunks
    /\ outOfOrder

\* C10: once the signal has fired, runWithConcurrency starts no further job:
\* a job that is unstarted stays unstarted.
C10_NoStartAfterAbort ==
    [][aborted => (/\ nextIndex' = nextIndex
                   /\ \A i \in Indices : job[i] = "unstarted" => job'[i] = "unstarted")]_vars

\* C10 witness: cancelled during scheduling with a job still unstarted; the run
\* has settled and the jobs that were in flight have all finished.
C10_Witness ==
    /\ abortedAt = "scheduling"
    /\ pc = "rejected"
    /\ outcome = "AbortError"
    /\ InFlight = {}
    /\ \E i \in Chunks : job[i] = "unstarted"

\* C12: no call to the recognition service is issued once the signal has
\* fired: in no step taken with the signal already set does a task move on
\* to its transcribeFile call.
C12_NoRemoteCallAfterAbort ==
    [][\A i \in Indices : (aborted /\ job[i] # "calling") => job'[i] # "calling"]_vars

----------------------------------------------------------------------------
(* Properties of chunkAudioFile, checked on SpecChunk *)

\* chunkDuration has been computed: chunkAudioFile is past line 100, so it
\* neither is at an earlier await nor threw at line 83 or 85.
Planned ==
    /\ cpc \notin {"idle", "stat", "probe"}
    /\ ~(cpc = "threw" /\ (ret.error = "StatError" \/ abortedIn = "idle"))

\* The ffmpeg strategies and the await that follows each of them.
ExecStages == {"single", "wav", "mp3"}

AfterExecStages == {"singleStat", "wavReaddir", "mp3Readdir"}

\* C13: every chunk file of a chunk list chunkAudioFile returns, by whichever
\* path, has size at most MAX_CHUNK_SIZE_BYTES.
C13_ReturnedChunksWithinCeiling ==
    cpc = "returned" => ret.maxSize * MB <= MAX_CHUNK_SIZE_BYTES

\* C14 (as stated): a source file of size at most the ceiling and length at
\* most 300 s always comes back as exactly one chunk.
C14_SmallFileOneChunk ==
    (cpc = "returned" /\ fileSize * MB <= MAX_CHUNK_SIZE_BYTES
       /\ trueDuration <= TARGET_CHUNK_DURATION_SECONDS)
    => ret.chunks = 1

\* C14 (amended): a file strictly below the ceiling whose reported duration
\* is at most 300 s (or unknown) is first converted whole, and when that
\* conversion is what chunkAudioFile returns from, the list has exactly one
\* WAV chunk; a file at the ceiling or above, or longer than 300 s, is never
\* converted whole but segmented.
C14_SmallFileSingleConversion ==
    Planned =>
      IF fileSize * MB < MAX_CHUNK_SIZE_BYTES /\ duration <= TARGET_CHUNK_DURATION_SECONDS
      THEN /\ ffmpegLog # <<>>
           /\ ffmpegLog[1] = "single"
           /\ (cpc = "returned" /\ ffmpegLog = <<"single">>) =>
                (ret.chunks = 1 /\ ret.format = "wav")
      ELSE \A k \in 1 .. Len(ffmpegLog) : ffmpegLog[k] # "single"

\* A 149 MB file of known length at most 300 s has come back from the
\* single-chunk conversion as one chunk.
C14_Witness ==
    /\ cpc = "returned"
    /\ fileSize = 149
    /\ duration = trueDuration
    /\ trueDuration <= TARGET_CHUNK_DURATION_SECONDS
    /\ ffmpegLog = <<"single">>
    /\ ret.chunks = 1

\* C15 (as stated): a 20-minute, 10 MB file comes back as a list of length 1.
C15_TwentyMinutesOneChunk ==
    (cpc = "returned" /\ fileSize = 10 /\ trueDuration = 1200) => ret.chunks = 1

\* C15 (amended): when ffprobe reports the 1200 s, the 10 MB file is not a
\* single chunk: the planned duration is 300 s, the WAV segmentation returns
\* 4 chunks and the MP3 fallback (150 s) returns 8.
C15_TwentyMinutesFourChunks ==
    (cpc = "returned" /\ fileSize = 10 /\ trueDuration = 1200 /\ duration = 1200)
    => /\ chunkDuration = TARGET_CHUNK_DURATION_SECONDS
       /\ "single" \notin {ffmpegLog[k] : k \in 1 .. Len(ffmpegLog)}
       /\ ret.format = "wav" => ret.chunks = 4
       /\ ret.format = "mp3" => ret.chunks = 8

\* The probed 20-minute, 10 MB file has come back as 4 WAV chunks.
C15_Witness ==
    /\ cpc = "returned"
    /\ fileSize = 10 /\ trueDuration = 1200 /\ duration = 1200
    /\ ret.format = "wav" /\ ret.chunks = 4

C17_ThreeHoursReduced ==
    (Planned /\ fileSize = 500 /\ trueDuration = 10800 /\ duration = 10800)
    => /\ chunkDuration < TARGET_CHUNK_DURATION_SECONDS
       /\ fileSize * chunkDuration <= MaxChunkMB * duration
       /\ cpc = "returned" => ret.chunks >= 4

\* C17 (amended): for the 3-hour, 500 MB file the planned duration is not
\* reduced: it stays 300 s, for which the estimated chunk size is already at
\* most the ceiling; the WAV segmentation returns 36 chunks and the MP3
\* fallback 72, so at least 4.
C17_ThreeHoursNotReduced ==
    (Planned /\ fileSize = 500 /\ trueDuration = 10800 /\ duration = 10800)
    => /\ chunkDuration = TARGET_CHUNK_DURATION_SECONDS
       /\ fileSize * chunkDuration <= MaxChunkMB * duration
       /\ cpc = "returned" =>
            /\ ret.chunks >= 4
            /\ ret.format = "wav" => ret.chunks = 36
            /\ ret.format = "mp3" => ret.chunks = 72

\* The probed 3-hour, 500 MB file has come back as 36 chunks cut at 300 s.
C17_Witness ==
    /\ cpc = "returned"
    /\ fileSize = 500 /\ trueDuration = 10800 /\ duration = 10800
    /\ chunkDuration = 300
    /\ ret.chunks = 36

\* C19: when the signal fires while an ffmpeg invocation is running or during
\* the await right after it, chunkAudioFile ends by rejecting with the
\* cancellation error (not by returning, not with the chunking error).
C19_CancelAroundExecRejects ==
    (abortedIn \in (ExecStages \cup AfterExecStages) /\ cpc \in {"returned", "threw"})
    => (cpc = "threw" /\ ret.error = "AbortError")

\* C20: when chunkAudioFile fails with its terminal chunking error no chunk
\* file is left in the working directory.
C20_NoChunkFilesAtTerminalError ==
    (cpc = "threw" /\ ret.error = "ChunkError") => (dir.wav = 0 /\ dir.mp3 = 0)

----------------------------------------------------------------------------
(* Properties of segmentAudioWithRetry, checked on SpecSeg *)

\* C18: once an ffmpeg invocation has raised the cancellation error,
\* segmentAudioWithRetry issues no further invocation and ends by rejecting
\* with the cancellation error.
C18_AbortErrorPropagates ==
    abortRaised # -1 =>
      /\ Len(segLog) = abortRaised
      /\ spc \in {"returned", "threw"} => (spc = "threw" /\ segError = "AbortError")

----------------------------------------------------------------------------
(* Properties of the documented worker pool, checked on SpecPool *)

\* C11: once the signal has fired no worker starts a job, also after the
\* race (and so the pipeline promise) has rejected.
C11_NoJobStartedAfterCancel == lateStarts = {}

----------------------------------------------------------------------------
(* Further properties of chunkAudioFile, checked on SpecChunk *)

\* The stages of the WAV attempt: the command, the listing, the size checks
\* and the deletion of oversized chunks.
WavStages == {"wav", "wavReaddir", "wavStat", "wavUnlink"}

\* C21: the MP3 command is started only out of the WAV attempt, when its
\* command failed, it listed no usable chunk, or its chunks were over the
\* ceiling and have been deleted; the terminal error is thrown only out of the
\* MP3 attempt, when its command failed or it listed no chunk; and an ffmpeg
\* command is started only when none is running or in the step the running one
\* settles.
C21_StrategyOrder ==
    [][/\ (cpc # "mp3" /\ cpc' = "mp3") =>
            /\ cpc \in WavStages
            /\ cpc = "wavUnlink" => dir.wavMax * MB > MAX_CHUNK_SIZE_BYTES
       /\ (cpc' = "threw" /\ ret'.error = "ChunkError") =>
            /\ cpc \in {"mp3", "mp3Readdir"}
            /\ ffmpegLog[Len(ffmpegLog)] = "mp3"
            /\ cpc = "mp3Readdir" => ret'.chunks = 0
       /\ ffmpegLog' # ffmpegLog =>
            /\ Len(ffmpegLog') = Len(ffmpegLog) + 1
            /\ cpc \in ExecStages => cpc' # cpc]_vars

\* Single-chunk conversion, WAV and MP3 were run one after the other and the
\* terminal error was thrown.
C21_Witness ==
    /\ cpc = "threw"
    /\ ret.error = "ChunkError"
    /\ ffmpegLog = <<"single", "wav", "mp3">>

----------------------------------------------------------------------------
(* Further properties of segmentAudioWithRetry, checked on SpecSeg *)

\* C22 (as stated): after an attempt whose chunks were over the ceiling, the
\* next attempt of the same strategy uses a strictly smaller duration.
C22_StrictlySmallerDuration ==
    [][(spc = "unlink" /\ spc' = "exec" /\ strategy' = strategy)
         => segDuration' < segDuration]_vars

\* C22 (amended): after an attempt whose chunks were over the ceiling (or
\* that threw), the next attempt of the same strategy runs at
\* max(30, floor(0.7 * d)), 0.8 for mp3: strictly smaller when d > 30, equal
\* to 30 when d <= 30; after the third lossless attempt the mp3 strategy
\* starts at max(60, initialDuration); and a return happens within the three
\* attempts of a strategy with every chunk within the ceiling.
C22_ReducedOrClamped ==
    [][/\ (spc \in {"unlink", "cleanup"} /\ spc' = "exec") =>
            IF strategy' = strategy
            THEN /\ attempt' = attempt + 1
                 /\ segDuration' =
                      Max(30, (segDuration * (IF strategy = "copy" THEN 7 ELSE 8)) \div 10)
                 /\ segDuration > 30 => segDuration' < segDuration
                 /\ segDuration <= 30 => segDuration' = 30
            ELSE /\ strategy = "copy" /\ strategy' = "mp3"
                 /\ attempt = ATTEMPTS_PER_STRATEGY - 1 /\ attempt' = 0
                 /\ segDuration' = Max(60, initialDuration)
       /\ spc' = "returned" =>
            /\ attempt < ATTEMPTS_PER_STRATEGY
            /\ segFiles[strategy].n > 0
            /\ segFiles[strategy].max <= DEFAULT_TARGET_CHUNK_SIZE_MB]_vars

\* The third lossless attempt, at 147 s after 300 s and 210 s, has again
\* produced a chunk over the ceiling.
C22_Witness ==
    /\ spc = "unlink"
    /\ strategy = "copy"
    /\ attempt = 2
    /\ initialDuration = 300
    /\ segDuration = 147
    /\ segFiles["copy"].max > DEFAULT_TARGET_CHUNK_SIZE_MB

\* C23: one runFfmpeg call issues at most two commands: a command that fails
\* without cancellation is issued again exactly once, the call returns after
\* the first success without issuing another, throws after the second
\* failure, and a cancellation error is rethrown without a retry.
C23_RetryOnce ==
    [][spc = "exec" =>
         /\ ffAttempt <= 1
         /\ spc' \in {"exec", "readdir", "cleanup"}
         /\ aborted => (spc' = "cleanup" /\ segLog' = segLog)
         /\ segLog' # segLog =>
              /\ ~aborted
              /\ ffAttempt = 0 /\ ffAttempt' = 1
              /\ spc' = "exec"
              /\ segLog' = Append(segLog, segLog[Len(segLog)])
         /\ spc' = "readdir" => (segLog' = segLog /\ ~aborted)
         /\ (spc' = "cleanup" /\ ~aborted) => (ffAttempt = 1 /\ segLog' = segLog)]_vars

\* The command of the first attempt has failed twice without cancellation and
\* runFfmpeg has thrown into the catch block.
C23_Witness ==
    /\ spc = "cleanup"
    /\ ~aborted
    /\ ffAttempt = 1
    /\ Len(segLog) = 2
    /\ segLog[1] = segLog[2]

\* runTranscription's catch block: an error named AbortError returns silently,
\* any other error raises the failure toast titled "Transcription failed".
CatchShowsFailureAlways(errorName) == TRUE

CatchShowsFailure(errorName) == errorName # "AbortError"

\* The transcription jobs that have completed (transcript, service error or
\* transport failure).
Completed == {i \in Chunks : job[i] = "done"}

\* C24 (as claimed): once a transcription job has completed, the latest
\* progressCallback invocation carries the number of completed jobs as its
\* count and the number of chunks as its total.
C24_ProgressCountsCompletedJobs ==
    (pc = "scheduling" /\ Completed # {}) =>
        /\ progress.stage = "transcription"
        /\ progress.current = Cardinality(Completed)
        /\ progress.total = nChunks

\* C25: a rejection raised by a cancellation check (checkAborted, the scheduler's
\* check, an aborted chunking invocation) is raised only with the signal set,
\* carries the name AbortError and reaches the caller under that name: nothing
\* on the way, the finally block's failing removal included, replaces it, and
\* the caller's catch block shows no "Transcription failed" for it. A generic
\* Error in a cancelled run is raised only by a step that can fail on its own
\* (validation, binary lookup, mkdtemp, showToast, stat, chunking) or by a
\* failed chunk read.
C25_CancellationIsAbortError ==
    [][/\ (outcome # "AbortError" /\ outcome' = "AbortError") => aborted
       /\ outcome = "AbortError" => outcome' = "AbortError"
       /\ (pc' = "rejected" /\ outcome' = "AbortError") => ~CatchShowsFailure(outcome')
       /\ (aborted /\ outcome = "none" /\ outcome' \in {"Error", "NotFoundError"}) =>
             \/ pc \in {"validating", "ffmpegPath", "mkdtemp", "toast", "stat", "chunking"}
             \/ \E i \in Chunks : job[i] = "reading" /\ job'[i] = "failed"]_vars

\* C25 witness: the signal fired during chunking, the removal of the temporary
\* directory failed, and the run rejected with AbortError.
C25_Witness ==
    /\ pc = "rejected"
    /\ outcome = "AbortError"
    /\ abortedAt = "chunking"
    /\ tempDir \notin {"none", "removed"}
    /\ ~CatchShowsFailure(outcome)

\* C26: once validation has found the source file missing, empty or of a format
\* that neither detectAudioFormat nor the metadata probe recognises,
\* transcribeAudio has rejected with the validation Error and has done, and
\* never does, any chunking work: no temporary directory was created, no
\* removal was issued, the run never got past the validation stage into
\* chunkAudioFile, and no transcription job was started.
C26_InvalidFileRejectsBeforeChunking ==
    (/\ validated # NotValidated
     /\ \/ ~validated.exists
        \/ validated.size = 0
        \/ ~validated.detected /\ ~validated.metadata)
    => /\ pc = "rejected"
       /\ outcome = "Error"
       /\ tempDir = "none"
       /\ rmCalls = 0
       /\ progress = StageProgress("validation")
       /\ nChunks = 0
       /\ rwc = "none"
       /\ \A i \in Indices : job[i] = "unstarted" /\ resp[i] = "none"

\* C26 witness: validation rejected an existing, recognised but empty file.
C26_Witness ==
    /\ pc = "rejected"
    /\ outcome = "Error"
    /\ validated.exists /\ validated.size = 0 /\ validated.detected
    /\ tempDir = "none"

\* C27: getBinaryPath probes the PATH and then each common location once, in
\* order, never the same one again; the "not found" Error is raised only when
\* the probe of the last location has failed, it rejects transcribeAudio at
\* once, and from then on the run stays rejected with no temporary directory
\* created, no removal issued and no chunk produced.
C27_NotFoundBeforeTempDir ==
    [][/\ (pc = "ffmpegPath" /\ probing' # probing) =>
             \/ pc' = "ffmpegPath" /\ probing' = probing + 1
             \/ pc' # "ffmpegPath" /\ probing' = 0
       /\ (outcome # "NotFoundError" /\ outcome' = "NotFoundError") =>
             /\ pc = "ffmpegPath"
             /\ probing = Len(Locations)
       /\ outcome' = "NotFoundError" =>
             /\ pc' = "rejected"
             /\ tempDir' = "none"
             /\ rmCalls' = 0
             /\ nChunks' = 0
             /\ rwc' = "none"]_vars

\* C27 witness: the binary was found nowhere and the call has rejected with the
\* "not found" Error, no temporary directory having been created.
C27_Witness ==
    /\ pc = "rejected"
    /\ outcome = "NotFoundError"
    /\ tempDir = "none"
    /\ CatchShowsFailure(outcome)

\* C28: getAudioDuration invokes ffprobe once and never again, and when the
\* invocation ended with the tool missing, an invocation error, or an empty,
\* non-numeric or non-finite output, it has returned 0 rather than thrown:
\* chunkAudioFile went on to its first ffmpeg command (or to its own
\* cancellation check) with duration 0 and the planned segment duration at the
\* default TARGET_CHUNK_DURATION_SECONDS, whatever the file size.
C28_ProbeFailureReturnsZero ==
    /\ probe.calls <= 1
    /\ probe.outcome # "none" => probe.calls = 1
    /\ probe.outcome \in ProbeOutcomes \ {"number"} =>
         /\ duration = 0
         /\ chunkDuration = TARGET_CHUNK_DURATION_SECONDS
         /\ cpc # "probe"
         /\ \/ Len(ffmpegLog) >= 1
            \/ cpc = "threw" /\ ret.error = "AbortError"

\* C28 witness: ffprobe printed a non-finite duration for a 2000 MB file, and
\* the WAV segmentation ran with the default plan and returned.
C28_Witness ==
    /\ probe = [calls |-> 1, outcome |-> "nonFinite"]
    /\ fileSize = 2000
    /\ cpc = "returned"
    /\ ret.format = "wav"
    /\ chunkDuration = TARGET_CHUNK_DURATION_SECONDS

\* The aggregate transcript of the reference run that transcribes chunks
\* 0 .. k-1 one after the other against the stub service (whose answer for
\* chunk i is resp[i]) and appends each non-empty text as it arrives.
RECURSIVE SequentialRun(_)
SequentialRun(k) ==
    IF k = 0 THEN <<>>
    ELSE LET acc == SequentialRun(k - 1)
             t == DeliveredText(k - 1)
         IN  IF t = <<>> THEN acc
             ELSE IF acc = <<>> THEN t
             ELSE acc \o <<" ">> \o t

\* C29: the aggregate transcript of a run that resolves is determined by the
\* chunks and the stub service's answers alone: it is the transcript of the
\* sequential reference run, whatever the interleaving and the completion
\* order of the concurrent jobs. Hence two runs on the same file with the same
\* configuration and the same stub yield the same transcript.
C29_TranscriptIndependentOfInterleaving ==
    pc = "resolved" => transcription = Trim(SequentialRun(nChunks))

\* C29 witness: a run of MaxChunks chunks, more than the concurrency limit, in
\* which a job completed before a lower-index one and the stub answered with
\* text, with an empty transcript and with an error, has resolved.
C29_Witness ==
    /\ pc = "resolved"
    /\ ~aborted
    /\ nChunks = MaxChunks
    /\ outOfOrder
    /\ \E i, j, k \in Chunks : resp[i] = "ok" /\ resp[j] = "empty" /\ resp[k] = "error" /\ i > k

\* No storage call is in flight.
Quiescent == \A c \in Callers : call[c].phase = "idle"

\* Items n, n-1, ...: the k most recently saved of n items, newest first.
NewestFirst(n, k) == [j \in 1 .. Min(n, k) |-> n - j + 1]

\* C30: with the historyLimit preference unset, after any sequence of
\* saveTranscription calls made one after the other (each completed before
\* the next starts, no removal), the stored history holds at most 10 items:
\* the most recently saved ones, the newest first.
C30_DefaultHistoryLastTen ==
    (/\ historyLimit = "undefined"
     /\ overlaps = 0
     /\ removedItems = {}
     /\ Quiescent)
    => /\ Len(stored.items) <= 10
       /\ stored.items = NewestFirst(saved, 10)
       /\ stored.present = (saved > 0)

\* C30 witness: twelve items were saved one after the other with the default
\* preferences; the history holds items 12 down to 3.
C30_Witness ==
    /\ historyLimit = "undefined"
    /\ overlaps = 0
    /\ removedItems = {}
    /\ Quiescent
    /\ saved = 12
    /\ Len(stored.items) = 10
    /\ stored.items[1] = 12
    /\ stored.items[10] = 3

\* The segmentation stages chunkAudioFile has issued so far.
SegmentationsIssued ==
    {ffmpegLog[k] : k \in 1 .. Len(ffmpegLog)} \cap {"wav", "mp3"}

\* C31: every -segment_time that chunkAudioFile has passed to a segmentation
\* command, the planned duration of the WAV command and the reduced one of the
\* MP3 command, lies between MIN_CHUNK_DURATION_SECONDS and
\* TARGET_CHUNK_DURATION_SECONDS inclusive, for every file size and every
\* probed duration (unknown included).
C31_SegmentTimeWithinBounds ==
    \A stage \in SegmentationsIssued :
        /\ MIN_CHUNK_DURATION_SECONDS <= SegmentTime(stage, chunkDuration)
        /\ SegmentTime(stage, chunkDuration) <= TARGET_CHUNK_DURATION_SECONDS

\* C31 witness: both segmentation commands were issued for a file whose
\* size-based duration is below the minimum, so the lower clamp set both.
C31_Witness ==
    /\ SegmentationsIssued = {"wav", "mp3"}
    /\ duration > 0
    /\ (MaxChunkMB * duration) \div fileSize < MIN_CHUNK_DURATION_SECONDS
    /\ SegmentTime("wav", chunkDuration) = MIN_CHUNK_DURATION_SECONDS
    /\ SegmentTime("mp3", chunkDuration) = MIN_CHUNK_DURATION_SECONDS

\* The execPromise invocations issued so far for the given strategy.
Invocations(strat) == {k \in 1 .. Len(segLog) : segLog[k].strategy = strat}

\* C32: segmentAudioWithRetry terminates. Its attempt counter stays below 3
\* in each strategy, the lossless strategy coming first, every attempt issues
\* at most 2 ffmpeg invocations (hence at most 6 per strategy), the
\* "unable to chunk" error is thrown only from the third attempt of the
\* compressed strategy, and, every awaited operation settling, the call
\* eventually returns or throws.
C32_TerminatesWithinSixAttempts ==
    /\ [](/\ attempt < ATTEMPTS_PER_STRATEGY
          /\ ffAttempt <= FFMPEG_RETRIES
          /\ Cardinality(Invocations("copy")) <= ATTEMPTS_PER_STRATEGY * (FFMPEG_RETRIES + 1)
          /\ Cardinality(Invocations("mp3")) <= ATTEMPTS_PER_STRATEGY * (FFMPEG_RETRIES + 1)
          /\ \A j, k \in 1 .. Len(segLog) :
               (segLog[j].strategy = "mp3" /\ segLog[k].strategy = "copy") => k < j
          /\ segError = "UnableToChunk" =>
               /\ spc = "threw"
               /\ strategy = "mp3"
               /\ attempt = ATTEMPTS_PER_STRATEGY - 1)
    /\ <>(spc \in {"returned", "threw"})

\* C32 witness: all six attempts failed, each after two ffmpeg invocations,
\* and segmentAudioWithRetry threw.
C32_Witness ==
    /\ spc = "threw"
    /\ segError = "UnableToChunk"
    /\ Len(segLog) = 2 * ATTEMPTS_PER_STRATEGY * (FFMPEG_RETRIES + 1)
    /\ ~aborted

\* The jobs runWithConcurrency has started.
Started == {i \in Indices : job[i] # "unstarted"}

\* How far the jobs have come: one for each job started, one for each read
\* completed, one for each job settled.
JobRank ==
    Cardinality(Started)
    + Cardinality({i \in Indices : job[i] \in {"calling", "done", "failed"}})
    + Cardinality({i \in Indices : job[i] \in {"done", "failed"}})

\* C33, in finite-run form: runWithConcurrency starts the jobs in ascending
\* index order (the started jobs are always the first nextIndex ones, and a
\* step starts job i only with all lower jobs started and within the limit);
\* while it is suspended with an unstarted job remaining, the limit is
\* reached, so a freed slot is refilled in the same turn by the next unstarted
\* job; every completion of a read or a call advances the jobs, which can
\* advance 3 * nChunks times in all; and whenever no started job is pending,
\* no cancellation has occurred and no read has failed, every job has been
\* started and has completed and runWithConcurrency has returned. So if every
\* read and every call completes, it returns after finitely many steps.
C33_StartsInOrderAndReturns ==
    /\ [](/\ Started = {i \in Indices : i < nextIndex}
          /\ nextIndex <= nChunks
          /\ JobRank <= 3 * nChunks
          /\ (rwc \in {"race", "all"} /\ nextIndex < nChunks) =>
                /\ rwc = "race"
                /\ Cardinality(executing) = MAX_CONCURRENT_TRANSCRIPTIONS
          /\ (/\ nChunks > 0
              /\ ~aborted
              /\ InFlight = {}
              /\ \A i \in Chunks : job[i] # "failed") =>
                /\ rwc = "returned"
                /\ nextIndex = nChunks
                /\ \A i \in Chunks : job[i] = "done")
    /\ [][/\ job' # job => JobRank' > JobRank
          /\ \A i \in Indices :
               (job[i] = "unstarted" /\ job'[i] # "unstarted") =>
                   /\ \A j \in Indices : j < i => job'[j] # "unstarted"
                   /\ Cardinality(executing') <= MAX_CONCURRENT_TRANSCRIPTIONS]_vars

\* C33 witness: without cancellation or read failure, a run of more chunks
\* than the limit has been scheduled to the end and the scheduler returned.
C33_Witness ==
    /\ rwc = "returned"
    /\ ~aborted
    /\ nChunks = MaxChunks
    /\ nextIndex = nChunks
    /\ \A i \in Chunks : job[i] = "done"

\* C34 (as claimed): a chunk whose file read failed is recovered like a failed
\* call: runWithConcurrency and transcribeAudio have not rejected because of
\* it, and the chunk's result is {index, "", null}.
C34_ReadFailureIsEmptyResult ==
    \A i \in Chunks :
        (job[i] = "failed" /\ ~aborted) =>
            /\ rwc # "rejected"
            /\ outcome # "Error"
            /\ results[i + 1] = [index |-> i, transcription |-> <<>>, rawData |-> Null]

\* The sum of the byte lengths of the chunk files of the set S.
RECURSIVE SumBytes(_)
SumBytes(S) ==
    IF S = {} THEN 0
    ELSE LET i == CHOOSE x \in S : TRUE
         IN  ChunkBytes(i) + SumBytes(S \ {i})

\* C35: totalSize is at every moment the sum of the byte lengths of the chunk
\* files read so far, each counted once, and when transcribeAudio resolves it
\* (chunkedFileInfo.size) is the sum over all chunk files, those whose
\* transcription failed included, whatever the interleaving of the jobs.
C35_TotalSizeIsSumOfChunks ==
    /\ totalSize = SumBytes({i \in Chunks : job[i] \in {"calling", "done"}})
    /\ pc = "resolved" => totalSize = SumBytes(Chunks)

\* C35 witness: a run of MaxChunks chunks resolved although a call failed and
\* a job completed before a lower-index one.
C35_Witness ==
    /\ pc = "resolved"
    /\ nChunks = MaxChunks
    /\ outOfOrder
    /\ Failed # {}
    /\ totalSize = SumBytes(Indices)

\* C36 (as claimed): a request the user has cancelled never has its result
\* saved to the history and its completion reported through onComplete.
C36_CancelledNeverCompletes ==
    aborted => pc # "completed"

\* The items of the stored history.
StoredItems == {stored.items[k] : k \in 1 .. Len(stored.items)}

\* C37 (as claimed): once every saveTranscription and removeTranscriptionItem
\* call has completed, overlapping or not, the stored history holds no removed
\* item and, when the limit evicts nothing (historyLimit = -1), it holds every
\* saved item that was not removed.
C37_NoLostUpdate ==
    Quiescent
    => /\ StoredItems \cap removedItems = {}
       /\ historyLimit = "-1" => StoredItems = (1 .. saved) \ removedItems

\* C38 (as claimed): with a configured history limit L other than -1, L = 0
\* included, the stored history never holds more than L items.
C38_LimitBoundsHistory ==
    historyLimit \in {"0", "2"} => Len(stored.items) <= ParseInt(historyLimit).value

====
